---- MODULE Spec2Model ----
(***************************************************************************)
(* The AXIS server-report log pipeline of unifi_camera_manager             *)
(* (axis_logs.py and the LogEntry / LogReport models of models.py).        *)
(*                                                                         *)
(* Text is a sequence of one-character strings, so that strip, lower,      *)
(* splitlines, join and the two regular expressions are computed           *)
(* character by character.  The alphabet is ASCII: letters, digits, "_",   *)
(* three whitespace characters and a few punctuation characters.           *)
(***************************************************************************)
EXTENDS Integers, Sequences, FiniteSets, TLC

VARIABLES
    client,     \* AxisLogClient._client: "None", or "open" inside a connection scope
    http,       \* the async with block open on the AxisLogClient, and the number
                \* of httpx.AsyncClient objects created and not yet closed
    call,       \* the get_logs call or the stream: where it is, its arguments,
                \* the requests it issued, what it fetched, extracted and
                \* parsed or yielded, and how it ended
    other,      \* SpecPair: a second get_logs call on the same AxisLogClient
    pline,      \* SpecParse: the argument of parse_log_line
    pnow,       \* SpecParse: what datetime.now() returns during the call
    pres,       \* SpecParse: <<>> before the call, <<how it ended>> after it,
                \* <<how it ended, how a second call ended>> after that one
    lstr,       \* SpecLevel: the level string
    lres,       \* SpecLevel: <<>> before, <<[parsed, validated]>> after
    report      \* SpecReport: the arguments of LogReport(...), and <<>> before,
                \* <<the LogReport>> after its construction

vars == <<client, http, call, other, pline, pnow, pres, lstr, lres, report>>

---------------------------------------------------------------------------
(* Characters and the character classes of Python's re on this alphabet.   *)

UpperSeq == <<"A","B","C","D","E","F","G","H","I","J","K","L","M",
              "N","O","P","Q","R","S","T","U","V","W","X","Y","Z">>
LowerSeq == <<"a","b","c","d","e","f","g","h","i","j","k","l","m",
              "n","o","p","q","r","s","t","u","v","w","x","y","z">>
DigitSeq == <<"0","1","2","3","4","5","6","7","8","9">>

Upper == {UpperSeq[i] : i \in DOMAIN UpperSeq}
Lower == {LowerSeq[i] : i \in DOMAIN LowerSeq}
Digit == {DigitSeq[i] : i \in DOMAIN DigitSeq}        \* \d
Space == {" ", "\t", "\n"}                            \* \s, str.isspace
Word  == Upper \cup Lower \cup Digit \cup {"_"}       \* \w
\* A byte that is not valid UTF-8, and U+FFFD, which decoding replaces it by.
BadByte     == "<ff>"
Replacement == "<fffd>"
Punct == {"-", "[", "]", ":", ".", "+", "!", "/", Replacement}
Alphabet == Word \cup Space \cup Punct
NonSpace == Alphabet \ Space                          \* \S
AnyChar  == Alphabet \ {"\n"}                         \* .
ProcChar == Word \cup {"-"}                           \* [\w\-]

\* Absent optional value (Python None) where a text is expected.
None == <<"None">>
\* Absent pid (Python None) where an integer is expected.
NoPid == -1

Min(S) == CHOOSE x \in S : \A y \in S : x <= y
Max(S) == CHOOSE x \in S : \A y \in S : x >= y

\* s[i], or "" past either end.
At(s, i) == IF i \in 1..Len(s) THEN s[i] ELSE ""

\* s[i:] (1-based, i may be Len(s)+1)
From(s, i) == SubSeq(s, i, Len(s))

\* The end (exclusive) of the longest run of characters of C starting at i:
\* what a greedy C* consumes.
RunEnd(s, i, C) == Min({j \in i..(Len(s) + 1) : At(s, j) \notin C})

\* s has the fixed-width shape (a sequence of character classes) at i.
MatchShape(s, i, shape) ==
    \A k \in 1..Len(shape) : At(s, i + k - 1) \in shape[k]

\* str.lower()
LowerChar(c) ==
    IF c \in Upper THEN LowerSeq[CHOOSE i \in DOMAIN UpperSeq : UpperSeq[i] = c]
    ELSE c
lower(s) == [i \in 1..Len(s) |-> LowerChar(s[i])]

\* str.strip()
strip(s) ==
    LET keep == {i \in 1..Len(s) : s[i] \notin Space}
    IN  IF keep = {} THEN <<>> ELSE SubSeq(s, Min(keep), Max(keep))

\* sys.int_info.default_max_str_digits: int() of a longer digit string
\* raises ValueError.
MaxStrDigits == 4300
IntRaises(ds) == Len(ds) > MaxStrDigits

\* int() of a digit string of at most MaxStrDigits digits
RECURSIVE int(_)
int(ds) ==
    IF ds = <<>> THEN 0
    ELSE 10 * int(SubSeq(ds, 1, Len(ds) - 1))
         + (CHOOSE d \in 0..9 : DigitSeq[d + 1] = ds[Len(ds)])

---------------------------------------------------------------------------
(* models.LogLevel and the two level normalisations.                       *)

EMERGENCY == <<"e","m","e","r","g","e","n","c","y">>
ALERT     == <<"a","l","e","r","t">>
CRITICAL  == <<"c","r","i","t","i","c","a","l">>
ERROR     == <<"e","r","r","o","r">>
WARNING   == <<"w","a","r","n","i","n","g">>
NOTICE    == <<"n","o","t","i","c","e">>
INFO      == <<"i","n","f","o">>
DEBUG     == <<"d","e","b","u","g">>

\* The members of the enum, each identified with its value.
LogLevel == {EMERGENCY, ALERT, CRITICAL, ERROR, WARNING, NOTICE, INFO, DEBUG}

Warn  == <<"w","a","r","n">>
Err   == <<"e","r","r">>
Crit  == <<"c","r","i","t">>
Emerg == <<"e","m","e","r","g">>

\* mappings.get(k, default) over a dict given as a set of <<key, value>>.
DictGet(dict, k, default) ==
    IF \E kv \in dict : kv[1] = k
    THEN (CHOOSE kv \in dict : kv[1] = k)[2]
    ELSE default

\* axis_logs._parse_log_level without the lower() (a mutant).
ParseLogLevelCaseSensitive(level_str) ==
    IF level_str \in LogLevel THEN level_str
    ELSE DictGet({<<Warn, WARNING>>, <<Err, ERROR>>, <<Crit, CRITICAL>>,
                  <<Emerg, EMERGENCY>>}, level_str, INFO)

\* axis_logs._parse_log_level
_parse_log_level(level_str) ==
    LET level_lower == lower(level_str)
        mappings == {<<Warn, WARNING>>, <<Err, ERROR>>, <<Crit, CRITICAL>>,
                     <<Emerg, EMERGENCY>>}
    IN  IF level_lower \in LogLevel          \* LogLevel(level_lower)
        THEN level_lower
        ELSE DictGet(mappings, level_lower, INFO)   \* except ValueError

\* models.LogEntry.normalize_level on a str argument.
normalize_level(v) ==
    LET level_map == {<<Emerg, EMERGENCY>>, <<ALERT, ALERT>>, <<Crit, CRITICAL>>,
                      <<Err, ERROR>>, <<ERROR, ERROR>>, <<Warn, WARNING>>,
                      <<WARNING, WARNING>>, <<NOTICE, NOTICE>>, <<INFO, INFO>>,
                      <<DEBUG, DEBUG>>}
    IN  DictGet(level_map, lower(v), INFO)

---------------------------------------------------------------------------
(* datetime: the values, their order, and the two text conversions.        *)

DaysBeforeMonth == <<0, 31, 59, 90, 120, 151, 181, 212, 243, 273, 304, 334>>
DaysInMonthSeq  == <<31, 28, 31, 30, 31, 30, 31, 31, 30, 31, 30, 31>>
IsLeap(y) == y % 4 = 0 /\ (y % 100 # 0 \/ y % 400 = 0)
DaysInMonth(y, m) == IF m = 2 /\ IsLeap(y) THEN 29 ELSE DaysInMonthSeq[m]

\* date.toordinal(): days since 0001-01-01, plus one.
ymd2ord(y, m, d) ==
    (y - 1) * 365 + ((y - 1) \div 4) - ((y - 1) \div 100) + ((y - 1) \div 400)
    + DaysBeforeMonth[m] + (IF m > 2 /\ IsLeap(y) THEN 1 ELSE 0) + d

\* A datetime: the local date (as an ordinal) and time of day, and for an
\* aware value its UTC offset in minutes.
DateTime(aware, day, sec, ms, off) ==
    [aware |-> aware, day |-> day, sec |-> sec, ms |-> ms, off |-> off]

\* The instant an aware value denotes (a naive one: its local fields).
UtcKey(dt) ==
    LET s == dt.sec - 60 * dt.off
    IN  IF s < 0 THEN <<dt.day - 1, s + 86400, dt.ms>>
        ELSE IF s >= 86400 THEN <<dt.day + 1, s - 86400, dt.ms>>
        ELSE <<dt.day, s, dt.ms>>

\* datetime.__lt__ raises TypeError between a naive and an aware value.
Comparable(a, b) == a.aware = b.aware

\* a < b, for comparable values.
DtLess(a, b) ==
    LET x == UtcKey(a)
        y == UtcKey(b)
    IN  \/ x[1] < y[1]
        \/ x[1] = y[1] /\ x[2] < y[2]
        \/ x[1] = y[1] /\ x[2] = y[2] /\ x[3] < y[3]

\* The fields datetime() accepts.
ValidFields(y, mo, d, h, mi, s) ==
    /\ y \in 1..9999
    /\ mo \in 1..12
    /\ d >= 1
    /\ d <= DaysInMonth(y, mo)
    /\ h \in 0..23
    /\ mi \in 0..59
    /\ s \in 0..59

\* The first three digits of a fraction, as milliseconds.
Millis(frac) ==
    int(SubSeq(frac \o <<"0", "0", "0">>, 1, 3))

\* datetime.fromisoformat on a text SYSLOG_PATTERN's timestamp group matched:
\* <<>> for ValueError, else <<value>>.
fromisoformat(text) ==
    LET n      == Len(text)
        hasOff == n >= 25 /\ text[n - 5] \in {"+", "-"}
        fracTo == IF hasOff THEN n - 6 ELSE n
        frac   == IF n >= 21 /\ text[20] = "." THEN SubSeq(text, 21, fracTo) ELSE <<>>
        y      == int(SubSeq(text, 1, 4))
        mo     == int(SubSeq(text, 6, 7))
        d      == int(SubSeq(text, 9, 10))
        h      == int(SubSeq(text, 12, 13))
        mi     == int(SubSeq(text, 15, 16))
        s      == int(SubSeq(text, 18, 19))
        oh     == int(SubSeq(text, n - 4, n - 3))
        om     == int(SubSeq(text, n - 1, n))
        sign   == IF text[n - 5] = "-" THEN -1 ELSE 1
    IN  IF ~ValidFields(y, mo, d, h, mi, s) THEN <<>>
        ELSE IF ~hasOff
        THEN <<DateTime(FALSE, ymd2ord(y, mo, d), h * 3600 + mi * 60 + s, Millis(frac), 0)>>
        ELSE IF oh > 23 \/ om > 59 THEN <<>>
        ELSE <<DateTime(TRUE, ymd2ord(y, mo, d), h * 3600 + mi * 60 + s, Millis(frac),
                        sign * (oh * 60 + om))>>

\* datetime.strptime(text, "%Y-%m-%d %H:%M:%S") on a text SIMPLE_LOG_PATTERN's
\* timestamp group matched: <<>> for ValueError, else <<value>>.
strptime(text) ==
    LET t  == RunEnd(text, 11, Space)
        y  == int(SubSeq(text, 1, 4))
        mo == int(SubSeq(text, 6, 7))
        d  == int(SubSeq(text, 9, 10))
        h  == int(SubSeq(text, t, t + 1))
        mi == int(SubSeq(text, t + 3, t + 4))
        s  == int(SubSeq(text, t + 6, t + 7))
    IN  IF ~ValidFields(y, mo, d, h, mi, s) THEN <<>>
        ELSE <<DateTime(FALSE, ymd2ord(y, mo, d), h * 3600 + mi * 60 + s, 0, 0)>>

\* The day the wall clock is in: 2025-01-11.
Today == ymd2ord(2025, 1, 11)

\* datetime.now() when the wall clock reads `clk` seconds past midnight.
now(clk) == DateTime(FALSE, Today, clk, 0, 0)

---------------------------------------------------------------------------
(* The two regular expressions: <<>> for no match, else <<groupdict>>.     *)

DateShape == <<Digit, Digit, Digit, Digit, {"-"}, Digit, Digit, {"-"}, Digit, Digit>>
TimeShape == <<Digit, Digit, {":"}, Digit, Digit, {":"}, Digit, Digit>>
IsoShape  == DateShape \o <<{"T"}>> \o TimeShape
OffsetShape == <<{"+", "-"}, Digit, Digit, {":"}, Digit, Digit>>

\* ":\s*" at position r without the \s* (a mutant).
MessageStartNoSkip(s, r) == r + 1

\* Where the message starts when the process clause's colon is at r: ":\s*".
MessageStart(s, r) == RunEnd(s, r + 1, Space)

\* SYSLOG_PATTERN.match(s).  Every quantifier of the pattern is followed by
\* a character outside its class, so the greedy run is the only split that
\* can match and no backtracking into a run succeeds.  The letters name the
\* positions after: the seconds (a), the fraction (b), the offset (c), \s+
\* (d), hostname (e), \s+ (f), "[" \s* (g), level (h), \s* (k), "]" \s+ (m),
\* process (p), the pid digits (q), the pid clause (r).
SYSLOG_PATTERN(s) ==
    LET a == Len(IsoShape) + 1
        b == IF At(s, a) = "." /\ At(s, a + 1) \in Digit
             THEN RunEnd(s, a + 1, Digit) ELSE a
        c == IF MatchShape(s, b, OffsetShape) THEN b + Len(OffsetShape) ELSE b
        d == RunEnd(s, c, Space)
        e == RunEnd(s, d, NonSpace)
        f == RunEnd(s, e, Space)
        g == RunEnd(s, f + 1, Space)
        h == RunEnd(s, g, Word)
        k == RunEnd(s, h, Space)
        m == RunEnd(s, k + 1, Space)
        p == RunEnd(s, m, ProcChar)
        q == RunEnd(s, p + 1, Digit)
        hasPid  == At(s, p) = "[" /\ q > p + 1 /\ At(s, q) = "]"
        r == IF hasPid THEN q + 1 ELSE p
        hasProc == p > m /\ At(s, r) = ":"
        msg == IF hasProc THEN MessageStart(s, r) ELSE m
    IN  IF /\ MatchShape(s, 1, IsoShape)
           /\ d > c /\ e > d /\ f > e
           /\ At(s, f) = "[" /\ h > g /\ At(s, k) = "]" /\ m > k + 1
           /\ \A i \in msg..Len(s) : s[i] \in AnyChar
        THEN <<[timestamp |-> SubSeq(s, 1, c - 1),
                hostname  |-> SubSeq(s, d, e - 1),
                level     |-> SubSeq(s, g, h - 1),
                process   |-> IF hasProc THEN SubSeq(s, m, p - 1) ELSE None,
                pid       |-> IF hasProc /\ hasPid THEN SubSeq(s, p + 1, q - 1) ELSE None,
                message   |-> From(s, msg)]>>
        ELSE <<>>

\* SIMPLE_LOG_PATTERN.match(s)
SIMPLE_LOG_PATTERN(s) ==
    LET a == Len(DateShape) + 1
        b == RunEnd(s, a, Space)
        c == b + Len(TimeShape)
        d == RunEnd(s, c, Space)
    IN  IF /\ MatchShape(s, 1, DateShape)
           /\ b > a
           /\ MatchShape(s, b, TimeShape)
           /\ d > c
           /\ \A i \in d..Len(s) : s[i] \in AnyChar
        THEN <<[timestamp |-> SubSeq(s, 1, c - 1), message |-> From(s, d)]>>
        ELSE <<>>

---------------------------------------------------------------------------
(* models.LogEntry and axis_logs.parse_log_line.                           *)

Unknown == <<"u","n","k","n","o","w","n">>

\* LogEntry(...): the validator passes a LogLevel member through unchanged.
LogEntry(timestamp, hostname, level, process, pid, message, raw) ==
    [timestamp |-> timestamp, hostname |-> hostname, level |-> level,
     process |-> process, pid |-> pid, message |-> message, raw |-> raw]

\* The branch of SYSLOG_PATTERN stamping every entry with the time of the
\* call (a mutant).
SyslogEntryNow(line, groups, parsed, clk) ==
    LogEntry(now(clk),
             groups.hostname,
             _parse_log_level(groups.level),
             IF groups.process # None THEN groups.process ELSE <<>>,
             IF groups.pid # None THEN int(groups.pid) ELSE NoPid,
             groups.message,
             line)

\* The branch of parse_log_line taken when SYSLOG_PATTERN matched: groups is
\* the match's groupdict, parsed what fromisoformat made of its timestamp.
SyslogEntry(line, groups, parsed, clk) ==
    LogEntry(IF parsed # <<>> THEN parsed[1] ELSE now(clk),   \* except ValueError
             groups.hostname,
             _parse_log_level(groups.level),
             IF groups.process # None THEN groups.process ELSE <<>>,
             IF groups.pid # None THEN int(groups.pid) ELSE NoPid,
             groups.message,
             line)

\* The branch taken when SIMPLE_LOG_PATTERN matched.
SimpleEntry(line, groups, parsed, clk) ==
    LogEntry(IF parsed # <<>> THEN parsed[1] ELSE now(clk),   \* except ValueError
             Unknown, INFO, <<>>, NoPid, groups.message, line)

\* The fallback: the line is the message.
FallbackEntry(line, clk) ==
    LogEntry(now(clk), Unknown, INFO, <<>>, NoPid, line, line)

\* How a call ends: it returns v, or the exception exc leaves it.
Returns(v)  == [raised |-> "None", value |-> v]
Raises(exc) == [raised |-> exc, value |-> <<>>]

\* parse_log_line after "line = line.strip()": syslog and simple are what
\* the two patterns make of the stripped line.  It returns <<>> for None,
\* else <<entry>>; the ValueError of int(groups["pid"]) is not caught.
ParseStripped(line, syslog, simple, clk) ==
    IF line = <<>> THEN Returns(<<>>)
    ELSE IF syslog # <<>>
    THEN IF syslog[1].pid # None /\ IntRaises(syslog[1].pid)
         THEN Raises("ValueError")
         ELSE Returns(<<SyslogEntry(line, syslog[1],
                                    fromisoformat(syslog[1].timestamp), clk)>>)
    ELSE IF simple # <<>>
    THEN Returns(<<SimpleEntry(line, simple[1], strptime(simple[1].timestamp), clk)>>)
    ELSE Returns(<<FallbackEntry(line, clk)>>)

\* The two patterns tried on the stripped line.
MatchStripped(line, clk) ==
    ParseStripped(line, SYSLOG_PATTERN(line), SIMPLE_LOG_PATTERN(line), clk)

\* parse_log_line(line0), with datetime.now() reading clk.
parse_log_line(line0, clk) == MatchStripped(strip(line0), clk)

---------------------------------------------------------------------------
(* Inputs of the pure functions.                                           *)

\* Every sequence over A of length at most n.
RECURSIVE SeqsUpTo(_, _)
SeqsUpTo(A, n) ==
    IF n = 0 THEN {<<>>}
    ELSE LET S == SeqsUpTo(A, n - 1)
         IN  S \cup {Append(x, a) : x \in {y \in S : Len(y) = n - 1}, a \in A}

\* The concatenation of a sequence of texts.
RECURSIVE Concat(_)
Concat(parts) == IF parts = <<>> THEN <<>> ELSE Head(parts) \o Concat(Tail(parts))

UpperChar(c) ==
    IF c \in Lower THEN UpperSeq[CHOOSE i \in DOMAIN LowerSeq : LowerSeq[i] = c]
    ELSE c

\* Every way of writing w with each letter in either case.
RECURSIVE CaseVariants(_)
CaseVariants(w) ==
    IF w = <<>> THEN {<<>>}
    ELSE {<<c>> \o v : c \in {w[1], UpperChar(w[1])}, v \in CaseVariants(Tail(w))}

MaxLevelLen == 3
LevelLetters == {"e", "E", "r", "R", "o"}
OtherLevelWords == {<<"f","a","t","a","l">>, <<"w","a","r","n","s">>,
                    <<"i","n","f","o","r","m","a","t","i","o","n","a","l">>}

\* The level strings tried: every spelling, in any letter case, of the long
\* forms, of the abbreviations and of some unknown words, and every short
\* string over a few letters.
LevelInputs ==
    UNION {CaseVariants(w) : w \in LogLevel \cup {Warn, Err, Crit, Emerg} \cup OtherLevelWords}
    \cup SeqsUpTo(LevelLetters, MaxLevelLen)

TsAware1 == <<"2","0","2","5","-","0","1","-","1","1","T","0","0",":","0","0",":","0","1","+","0","0",":","0","0">>
TsAware2 == <<"2","0","2","5","-","0","1","-","1","1","T","0","1",":","0","0",":","0","2",".","8","6","1","+","0","1",":","0","0">>
TsAware3 == <<"2","0","2","5","-","0","1","-","1","1","T","0","0",":","0","0",":","0","3","+","0","0",":","0","0">>
TsNaive1 == <<"2","0","2","5","-","0","1","-","1","1","T","0","0",":","0","0",":","0","1">>
TsNaive3 == <<"2","0","2","5","-","0","1","-","1","1","T","0","0",":","0","0",":","0","3">>
TsBadMonth == <<"2","0","2","5","-","1","3","-","1","1","T","0","0",":","0","0",":","0","1">>
TsSimple2 == <<"2","0","2","5","-","0","1","-","1","1"," ","0","0",":","0","0",":","0","2">>
TsSimpleBad == <<"2","0","2","5","-","0","1","-","1","1"," ","0","0",":","6","1",":","0","2">>

\* Line heads of the primary shape, up to and including the whitespace after
\* the level bracket.
HeadInfo == TsAware1 \o <<" ","a","x","i","s","-","1"," ","["," ","I","N","F","O"," "," ","]"," ">>
HeadWarn == TsAware2 \o <<" ","h"," ","[","w","a","r","n","]"," ">>
HeadErr  == TsNaive1 \o <<" ","h"," ","["," ","E","r","r"," ","]","\t">>
HeadBadMonth == TsBadMonth \o <<" ","h"," ","[","x","9","]"," ">>
PrimaryHeads == {HeadInfo, HeadWarn, HeadErr, HeadBadMonth}

\* Line heads of the secondary shape.
HeadSimple    == TsSimple2 \o <<" ">>
HeadSimpleBad == TsSimpleBad \o <<" ">>
SimpleHeads == {HeadSimple, HeadSimpleBad}

\* Heads that only resemble a grammar: a "Z" suffix on the timestamp, no
\* whitespace after the level bracket, a date without a time, nothing.
HeadZulu    == TsNaive1 \o <<"Z"," ","h"," ","[","I","N","F","O","]"," ">>
HeadNoSpace == TsNaive3 \o <<" ","h"," ","[","I","N","F","O","]">>
HeadDate    == <<"2","0","2","5","-","0","1","-","1","1"," ">>
OtherHeads == {HeadZulu, HeadNoSpace, HeadDate, <<>>}

\* What follows a head: up to MaxSegs pieces.
MaxSegs == 4
SegPool == {<<"p">>, <<"[","1","2","]">>, <<":">>, <<" ">>, <<"m","!">>}
Tails == {Concat(t) : t \in SeqsUpTo(SegPool, MaxSegs)}

\* Leading and trailing whitespace around a line.
Pads == {<< <<>>, <<>> >>, << <<" ">>, <<>> >>, << <<>>, <<" ", "\t">> >>}

\* A line of the primary shape whose pid has one digit too many for int().
LongPidLine ==
    HeadInfo \o <<"p", "[">> \o [i \in 1..(MaxStrDigits + 1) |-> "1"]
             \o <<"]", ":", " ", "m", "!">>

ParseInputs ==
    {pad[1] \o h \o t \o pad[2] :
        pad \in Pads, h \in PrimaryHeads \cup SimpleHeads \cup OtherHeads, t \in Tails}
    \cup {LongPidLine}

\* Wall-clock readings (seconds past midnight of Today).
ClockReadings == {1, 2}

---------------------------------------------------------------------------
(* SpecLevel: the two level normalisations applied to one level string.    *)

IdleParse == pline = <<>> /\ pnow = 0 /\ pres = <<>>
IdleLevel == lstr = <<>> /\ lres = [parsed |-> <<>>, validated |-> <<>>]
IdleCall  == [pc |-> "idle", log_type |-> "system", max_entries |-> <<>>,
              requests |-> <<>>, response |-> <<>>, log_files |-> <<>>,
              content |-> <<>>, parsed |-> <<>>, outcome |-> <<>>,
              failure |-> <<>>, k |-> 0, clk |-> 1, yielded |-> <<>>,
              via |-> "get_logs", given |-> <<>>]
IdleReport == report = [entries |-> <<>>, total_entries |-> <<>>, built |-> <<>>]
NoScope    == [scope |-> "none", unclosed |-> 0]
IdleClient ==
    client = "None" /\ http = NoScope /\ call = IdleCall /\ other = IdleCall /\ IdleReport

InitLevel ==
    /\ lstr \in LevelInputs
    /\ lres = [parsed |-> <<>>, validated |-> <<>>]
    /\ IdleParse
    /\ IdleClient

\* _parse_log_level(lstr)
ParseLevel ==
    /\ lres.parsed = <<>>
    /\ lres' = [lres EXCEPT !.parsed = <<_parse_log_level(lstr)>>]
    /\ UNCHANGED <<report, other, lstr, pline, pnow, pres, client, http, call>>

\* LogEntry(level=lstr, ...)
ValidateLevel ==
    /\ lres.validated = <<>>
    /\ lres' = [lres EXCEPT !.validated = <<normalize_level(lstr)>>]
    /\ UNCHANGED <<report, other, lstr, pline, pnow, pres, client, http, call>>

NextLevel == ParseLevel \/ ValidateLevel

SpecLevel == InitLevel /\ [][NextLevel]_vars

---------------------------------------------------------------------------
(* SpecParse: parse_log_line applied to one line.                          *)

InitParse ==
    /\ pline \in ParseInputs
    /\ pnow \in ClockReadings
    /\ pres = <<>>
    /\ IdleLevel
    /\ IdleClient

\* parse_log_line(pline)
ParseLine ==
    /\ pres = <<>>
    /\ pres' = <<parse_log_line(pline, pnow)>>
    /\ UNCHANGED <<report, other, pline, pnow, lstr, lres, client, http, call>>

\* parse_log_line(pline) once more, the clock reading clk by then.
ParseAgain ==
    /\ Len(pres) = 1
    /\ \E clk \in {c \in ClockReadings : c >= pnow} :
          pres' = Append(pres, parse_log_line(pline, clk))
    /\ UNCHANGED <<report, other, pline, pnow, lstr, lres, client, http, call>>

NextParse == ParseLine \/ ParseAgain

SpecParse == InitParse /\ [][NextParse]_vars

---------------------------------------------------------------------------
(* The pipeline of AxisLogClient.get_logs: extract, classify, parse, sort, *)
(* truncate, wrap.                                                         *)

\* str.splitlines() (the alphabet's only line terminator is "\n")
RECURSIVE splitlines(_)
splitlines(text) ==
    IF text = <<>> THEN <<>>
    ELSE LET nl == {i \in 1..Len(text) : text[i] = "\n"}
         IN  IF nl = {} THEN <<text>>
             ELSE <<SubSeq(text, 1, Min(nl) - 1)>> \o splitlines(From(text, Min(nl) + 1))

\* sep.join(parts)
RECURSIVE join(_, _)
join(sep, parts) ==
    IF parts = <<>> THEN <<>>
    ELSE IF Len(parts) = 1 THEN parts[1]
    ELSE parts[1] \o sep \o join(sep, Tail(parts))

\* needle in hay
Contains(hay, needle) ==
    \E i \in 1..(Len(hay) - Len(needle) + 1) : SubSeq(hay, i, i + Len(needle) - 1) = needle

\* bytes.decode("utf-8", errors="replace")
decode(bytes) ==
    [i \in 1..Len(bytes) |-> IF bytes[i] = BadByte THEN Replacement ELSE bytes[i]]

\* A dict is the sequence of its items in insertion order: d[k] = v.
DictSet(d, k, v) ==
    IF \E i \in 1..Len(d) : d[i].name = k
    THEN [i \in 1..Len(d) |-> IF d[i].name = k THEN [name |-> k, content |-> v] ELSE d[i]]
    ELSE Append(d, [name |-> k, content |-> v])

\* models.LogType
LogType == {"system", "access", "audit", "all"}

PatSyslog      == <<"s","y","s","l","o","g">>
PatMessages    == <<"m","e","s","s","a","g","e","s">>
PatKernLog     == <<"k","e","r","n",".","l","o","g">>
PatAccessLog   == <<"a","c","c","e","s","s",".","l","o","g">>
PatHttpdAccess == <<"h","t","t","p","d","/","a","c","c","e","s","s">>
PatAuditLog    == <<"a","u","d","i","t",".","l","o","g">>
PatAuditAudit  == <<"a","u","d","i","t","/","a","u","d","i","t">>

\* LOG_FILE_PATTERNS.get(log_type, [])
LOG_FILE_PATTERNS(log_type) ==
    CASE log_type = "system" -> <<PatSyslog, PatMessages, PatKernLog>>
      [] log_type = "access" -> <<PatAccessLog, PatHttpdAccess>>
      [] log_type = "audit"  -> <<PatAuditLog, PatAuditAudit>>
      [] OTHER               -> <<>>

\* The fallback stored under a name of the system logs (a mutant).
ServerReportSyslog == <<"s","y","s","l","o","g",".","t","x","t">>

ServerReportTxt == <<"s","e","r","v","e","r","r","e","p","o","r","t",".","t","x","t">>

\* What tarfile.open(fileobj=..., mode="r:*") and getmembers() do with the
\* fetched bytes: read the members of an archive ("tar"), raise
\* tarfile.ReadError (a TarError) on bytes that are no archive ("flat") and
\* on an archive whose first header is damaged or that ends inside the data
\* of a member ("cut"), raise
\* EOFError (no TarError) on a gzip stream that ends early ("truncated").
TarOpen(response) ==
    CASE response.kind = "tar"       ->
             IF response.members # <<>> /\ Head(response.members).type = "damaged"
             THEN "TarError" ELSE "ok"
      [] response.kind = "flat"      -> "TarError"
      [] response.kind = "cut"       -> "TarError"
      [] response.kind = "truncated" -> "EOFError"

\* The member loop keeping the first content stored under a name (a mutant:
\* log_files.setdefault in place of the item assignment).
RECURSIVE ExtractMembersKeepFirst(_, _)
ExtractMembersKeepFirst(members, log_files) ==
    IF members = <<>> \/ Head(members).type = "damaged" THEN log_files
    ELSE LET member == Head(members)
         IN  ExtractMembersKeepFirst(Tail(members),
                 IF member.type = "file" /\ member.readable
                       /\ \A i \in 1..Len(log_files) : log_files[i].name # member.name
                 THEN DictSet(log_files, member.name, decode(member.data))
                 ELSE log_files)

\* The loop over tar.getmembers(); the listing ends, without an error, at a
\* member whose header is damaged.
RECURSIVE ExtractMembers(_, _)
ExtractMembers(members, log_files) ==
    IF members = <<>> \/ Head(members).type = "damaged" THEN log_files
    ELSE LET member == Head(members)
         IN  ExtractMembers(Tail(members),
                 IF member.type = "file" /\ member.readable
                 THEN DictSet(log_files, member.name, decode(member.data))
                 ELSE log_files)

\* AxisLogClient.get_log_files once the server report is fetched: the
\* exception that leaves it ("None" for none) and the mapping it returns.
get_log_files(response) ==
    LET opened == TarOpen(response)
    IN  IF opened = "ok"
        THEN [raised |-> "None", log_files |-> ExtractMembers(response.members, <<>>)]
        ELSE IF opened = "TarError"
        THEN [raised |-> "None",
              log_files |-> DictSet(<<>>, ServerReportTxt, decode(response.body))]
        ELSE [raised |-> opened, log_files |-> <<>>]

\* _find_log_content matching the names as they are spelt (a mutant: the
\* lower() of the filename dropped).
FindLogContentCaseSensitive(log_files, log_type) ==
    LET patterns == LOG_FILE_PATTERNS(log_type)
        matching_content ==
            SelectSeq(log_files, LAMBDA item :
                \E k \in 1..Len(patterns) : Contains(item.name, lower(patterns[k])))
    IN  IF log_type = "all"
        THEN join(<<"\n">>, [i \in 1..Len(log_files) |-> log_files[i].content])
        ELSE join(<<"\n">>, [i \in 1..Len(matching_content) |-> matching_content[i].content])

\* _find_log_content falling back on every file when no name matches (a
\* mutant).
FindLogContentAllWhenNoMatch(log_files, log_type) ==
    LET patterns == LOG_FILE_PATTERNS(log_type)
        matching_content ==
            SelectSeq(log_files, LAMBDA item :
                \E k \in 1..Len(patterns) : Contains(lower(item.name), lower(patterns[k])))
    IN  IF log_type = "all" \/ matching_content = <<>>
        THEN join(<<"\n">>, [i \in 1..Len(log_files) |-> log_files[i].content])
        ELSE join(<<"\n">>, [i \in 1..Len(matching_content) |-> matching_content[i].content])

\* AxisLogClient._find_log_content
_find_log_content(log_files, log_type) ==
    LET patterns == LOG_FILE_PATTERNS(log_type)
        values   == [i \in 1..Len(log_files) |-> log_files[i].content]
        matches(filename) ==
            \E k \in 1..Len(patterns) : Contains(lower(filename), lower(patterns[k]))
        matching_content ==
            SelectSeq(log_files, LAMBDA item : matches(item.name))
    IN  IF log_type = "all" THEN join(<<"\n">>, values)
        ELSE join(<<"\n">>, [i \in 1..Len(matching_content) |-> matching_content[i].content])

\* The loop of parse_log_content over lines from the k-th on, the k-th call
\* of parse_log_line reading the wall clock as clks[k]; entries are those
\* appended so far.
RECURSIVE ParseLines(_, _, _, _)

\* One turn of the loop, r being what parse_log_line made of the k-th line:
\* "if entry: entries.append(entry)", or the exception goes on up.
AppendEntry(lines, clks, k, entries, r) ==
    IF r.raised # "None" THEN Raises(r.raised)
    ELSE ParseLines(lines, clks, k + 1, entries \o r.value)

ParseLines(lines, clks, k, entries) ==
    IF k > Len(lines) THEN Returns(entries)
    ELSE AppendEntry(lines, clks, k, entries, parse_log_line(lines[k], clks[k]))

\* axis_logs.parse_log_content
parse_log_content(content, clks) == ParseLines(splitlines(content), clks, 1, <<>>)

\* list.sort compares keys with <, which raises TypeError between a naive
\* and an aware datetime; a sort of two or more entries compares, directly
\* or through others, every pair.
SortRaises(entries) ==
    \E i, j \in 1..Len(entries) : ~Comparable(entries[i].timestamp, entries[j].timestamp)

\* One insertion of a stable descending sort: e goes after every entry
\* whose key is not smaller.
InsertDesc(sorted, e) ==
    LET smaller == {i \in 1..Len(sorted) : DtLess(sorted[i].timestamp, e.timestamp)}
        pos     == IF smaller = {} THEN Len(sorted) + 1 ELSE Min(smaller)
    IN  SubSeq(sorted, 1, pos - 1) \o <<e>> \o SubSeq(sorted, pos, Len(sorted))

\* The insertion of an ascending sort (a mutant: reverse=True dropped).
InsertAsc(sorted, e) ==
    LET larger == {i \in 1..Len(sorted) : DtLess(e.timestamp, sorted[i].timestamp)}
        pos    == IF larger = {} THEN Len(sorted) + 1 ELSE Min(larger)
    IN  SubSeq(sorted, 1, pos - 1) \o <<e>> \o SubSeq(sorted, pos, Len(sorted))

\* The insertion of an unstable descending sort (a mutant): e goes before
\* the entries of equal key.
InsertDescUnstable(sorted, e) ==
    LET notLarger == {i \in 1..Len(sorted) : ~DtLess(e.timestamp, sorted[i].timestamp)}
        pos       == IF notLarger = {} THEN Len(sorted) + 1 ELSE Min(notLarger)
    IN  SubSeq(sorted, 1, pos - 1) \o <<e>> \o SubSeq(sorted, pos, Len(sorted))

\* The sort with reverse=True dropped (a mutant).
RECURSIVE SortAscending(_)
SortAscending(entries) ==
    IF entries = <<>> THEN <<>>
    ELSE InsertAsc(SortAscending(SubSeq(entries, 1, Len(entries) - 1)),
                   entries[Len(entries)])

\* An unstable descending sort (a mutant).
RECURSIVE SortUnstable(_)
SortUnstable(entries) ==
    IF entries = <<>> THEN <<>>
    ELSE InsertDescUnstable(SortUnstable(SubSeq(entries, 1, Len(entries) - 1)),
                            entries[Len(entries)])

\* entries.sort(key=lambda e: e.timestamp, reverse=True), when it does not
\* raise: a stable sort, newest first.
RECURSIVE SortNewestFirst(_)
SortNewestFirst(entries) ==
    IF entries = <<>> THEN <<>>
    ELSE InsertDesc(SortNewestFirst(SubSeq(entries, 1, Len(entries) - 1)),
                    entries[Len(entries)])

\* entries[:k]
SliceTo(entries, k) ==
    IF k >= 0 THEN SubSeq(entries, 1, IF k < Len(entries) THEN k ELSE Len(entries))
    ELSE SubSeq(entries, 1, Len(entries) + k)

\* The truncation keeping the last entries, entries[-k:] (a mutant).
TruncateKeepOldest(entries, max_entries) ==
    IF max_entries # <<>> /\ max_entries[1] > 0 /\ max_entries[1] < Len(entries)
    THEN SubSeq(entries, Len(entries) - max_entries[1] + 1, Len(entries))
    ELSE entries

\* "if max_entries: entries = entries[:max_entries]"; max_entries is <<>>
\* for None, else <<k>>.
Truncate(entries, max_entries) ==
    IF max_entries # <<>> /\ max_entries[1] # 0
    THEN SliceTo(entries, max_entries[1])
    ELSE entries

\* The camera's configuration.
Config == [name |-> "Test Camera", ip_address |-> "192.168.1.100"]

\* LogReport.model_post_init: the value total_entries has after it.
model_post_init(total_entries, entries) ==
    IF total_entries = 0 THEN Len(entries) ELSE total_entries

\* models.LogReport(..., total_entries=...): the field is the value
\* supplied, 0 when none is (<<>>), and then model_post_init runs.
LogReportWith(camera_name, camera_address, log_type, entries, total_entries) ==
    [camera_name |-> camera_name, camera_address |-> camera_address,
     log_type |-> log_type, entries |-> entries,
     total_entries |-> model_post_init(IF total_entries = <<>> THEN 0
                                       ELSE total_entries[1], entries)]

\* models.LogReport(...) with total_entries left to model_post_init.
LogReport(camera_name, camera_address, log_type, entries) ==
    LogReportWith(camera_name, camera_address, log_type, entries, <<>>)

\* The end of get_logs: sort, truncate, wrap.  The entries parsed, the
\* exception raised ("None" for none) and the report returned (<<>> for none).
SortAndReport(entries, log_type, max_entries) ==
    IF SortRaises(entries)
    THEN [parsed |-> entries, exc |-> "TypeError", report |-> <<>>]
    ELSE [parsed |-> entries, exc |-> "None",
          report |-> <<LogReport(IF Config.name # "" THEN Config.name
                                 ELSE Config.ip_address,
                                 Config.ip_address, log_type,
                                 Truncate(SortNewestFirst(entries), max_entries))>>]

\* get_logs once parse_log_content has returned or raised.
ReportParsed(parsed, log_type, max_entries) ==
    IF parsed.raised # "None"
    THEN [parsed |-> <<>>, exc |-> parsed.raised, report |-> <<>>]
    ELSE SortAndReport(parsed.value, log_type, max_entries)

\* get_logs once get_log_files has returned or raised.
ParseAndReport(files, log_type, max_entries, clks) ==
    IF files.raised # "None"
    THEN [parsed |-> <<>>, exc |-> files.raised, report |-> <<>>]
    ELSE ReportParsed(
             parse_log_content(_find_log_content(files.log_files, log_type), clks),
             log_type, max_entries)

\* AxisLogClient.get_logs from the point where the server report has been
\* fetched.
get_logs(response, log_type, max_entries, clks) ==
    ParseAndReport(get_log_files(response), log_type, max_entries, clks)

---------------------------------------------------------------------------
(* The server reports fetched.                                             *)

LineAware1a == HeadInfo \o <<"p","[","1","2","]",":"," ","m","!">>
LineAware3  == TsAware3 \o <<" ","h"," ","[","I","N","F","O","]"," ","m","!">>
LineAware2  == HeadWarn \o <<"m","!">>
LineNaive1  == HeadErr \o <<"p",":"," ","m","!">>
LineOther   == <<"m","!">>
LineBlank   == <<" "," ">>
LinePool == {LineAware1a, LineAware2, LineAware3, LineNaive1, LineOther, LineBlank}

\* File contents: up to MaxLines lines of the pool.
MaxLines == 3
Contents == {join(<<"\n">>, ls) : ls \in SeqsUpTo(LinePool, MaxLines)}

NameSyslog == <<"v","a","r","/","l","o","g","/","s","y","s","l","o","g">>
NameAccess == <<"h","t","t","p","d","/","A","c","c","e","s","s",".","L","O","G">>
NameNotes  == <<"n","o","t","e","s",".","t","x","t">>

Member(name, type, readable, data) ==
    [name |-> name, type |-> type, readable |-> readable, data |-> data]

\* Members of the archives of several members.
MemberPool ==
    {Member(NameSyslog, "file", TRUE, LineAware2 \o <<"\n">>),
     Member(NameSyslog, "file", TRUE, LineOther),
     Member(NameSyslog, "file", FALSE, LineAware2),
     Member(NameSyslog, "dir", TRUE, <<>>),
     Member(NameAccess, "file", TRUE, LineAware1a \o <<"\n">> \o LineOther \o <<BadByte>>),
     Member(NameNotes, "file", TRUE, LineNaive1)}

MaxMembers == 2

\* Members of the damaged archives: a sound one, one whose header is
\* damaged, and a sound one that comes last.
MemberReadable == Member(NameSyslog, "file", TRUE, LineAware2)
MemberDamaged  == Member(NameAccess, "damaged", TRUE, LineOther)
MemberLast     == Member(NameNotes, "file", TRUE, LineAware3)

TarOf(members) == [kind |-> "tar", members |-> members, body |-> <<>>]

Responses ==
    {TarOf(<<Member(NameSyslog, "file", TRUE, c)>>) : c \in Contents}
    \cup {TarOf(ms) : ms \in SeqsUpTo(MemberPool, MaxMembers)}
    \cup {TarOf(<<Member(NameSyslog, "file", TRUE, LongPidLine)>>)}
    \cup {[kind |-> "flat", members |-> <<>>, body |-> b] :
            b \in {<<>>, LineAware2 \o <<"\n">> \o LineOther, <<BadByte>> \o LineOther}}
    \cup {[kind |-> "truncated", members |-> <<>>, body |-> <<>>]}
    \cup {[kind |-> "cut", members |-> ms, body |-> <<BadByte>> \o LineOther] :
            ms \in {<<MemberReadable, MemberLast>>}}
    \cup {[kind |-> "tar", members |-> ms, body |-> <<BadByte>> \o LineOther] :
            ms \in {<<MemberReadable, MemberDamaged, MemberLast>>,
                    <<MemberDamaged, MemberLast>>}}

\* max_entries: None, or an int up to MaxEntriesArg.
MaxEntriesArg == 2
MaxEntriesArgs == {<<>>} \cup {<<k>> : k \in -1..MaxEntriesArg}

\* The readings of datetime.now() during one call over n lines: ClockReadings
\* in order, the clock ticking before line f.
NowRuns(n) == {[k \in 1..n |-> IF k < f THEN 1 ELSE 2] : f \in 1..(n + 1)}

---------------------------------------------------------------------------
(* Spec: one AxisLogClient, its connection scope, its get_logs calls and   *)
(* its streams.                                                            *)

Init ==
    /\ IdleClient
    /\ IdleParse
    /\ IdleLevel

\* "async with AxisLogClient(config) as client:" reaches its body:
\* AxisLogClient.__aenter__ on the new object creates the httpx client.
Enter ==
    /\ call.pc = "idle"
    /\ http.scope = "none"
    /\ client' = "open"
    /\ http' = [scope |-> "with", unclosed |-> http.unclosed + 1]
    /\ UNCHANGED <<report, other, call, pline, pnow, pres, lstr, lres>>

\* __aexit__ that forgets the client without closing it (a mutant).
ExitNoClose ==
    /\ call.pc = "idle"
    /\ http.scope = "with"
    /\ client' = "None"
    /\ http' = [http EXCEPT !.scope = "none"]
    /\ UNCHANGED <<report, other, call, pline, pnow, pres, lstr, lres>>

\* What __aexit__ does to the httpx clients: "if self._client: await
\* self._client.aclose()".
Closed(h) == IF client # "None" THEN [h EXCEPT !.unclosed = @ - 1] ELSE h

\* The body of the async with block has ended: AxisLogClient.__aexit__
Exit ==
    /\ call.pc = "idle"
    /\ http.scope = "with"
    /\ client' = "None"
    /\ http' = Closed([http EXCEPT !.scope = "none"])
    /\ UNCHANGED <<report, other, call, pline, pnow, pres, lstr, lres>>

\* The GET of get_server_report(ServerReportMode.TAR_ALL).
TarAllRequest ==
    [url |-> "/axis-cgi/serverreport.cgi", params |-> [mode |-> "tar_all"]]

\* get_logs without _ensure_connected (a mutant): the GET is issued whether
\* there is a client or not.
GetLogsUnchecked(log_type, max_entries) ==
    /\ call.pc = "idle"
    /\ call' = [IdleCall EXCEPT !.pc = "fetching", !.log_type = log_type,
                                !.max_entries = max_entries,
                                !.requests = <<TarAllRequest>>]
    /\ UNCHANGED <<report, other, client, http, pline, pnow, pres, lstr, lres>>

\* get_logs(log_type, max_entries) up to the await of the GET:
\* _ensure_connected raises RuntimeError when there is no client.
GetLogs(log_type, max_entries) ==
    /\ call.pc = "idle"
    /\ call' = IF client = "None"
               THEN [IdleCall EXCEPT !.pc = "done", !.log_type = log_type,
                                     !.max_entries = max_entries,
                                     !.outcome = <<[exc |-> "RuntimeError", report |-> <<>>]>>]
               ELSE [IdleCall EXCEPT !.pc = "fetching", !.log_type = log_type,
                                     !.max_entries = max_entries,
                                     !.requests = <<TarAllRequest>>]
    /\ UNCHANGED <<report, other, client, http, pline, pnow, pres, lstr, lres>>

\* The errors of httpx.HTTPError that a GET ends with: client.get raises a
\* transport error, or raise_for_status raises on a status that is no 2xx.
HTTPErrors == {"TransportError", "HTTPStatusError"}

\* get_logs with one retry of a failed GET (a mutant).
FetchFailRetry(error) ==
    /\ call.pc = "fetching"
    /\ call' = [call EXCEPT !.requests = @ \o <<TarAllRequest>>]
    /\ UNCHANGED <<report, other, client, http, pline, pnow, pres, lstr, lres>>

\* The GET fails with error: the error leaves get_logs.
FetchFail(error) ==
    /\ call.pc = "fetching"
    /\ call' = [call EXCEPT !.pc = "done", !.failure = <<error>>,
                            !.outcome = <<[exc |-> error, report |-> <<>>]>>]
    /\ UNCHANGED <<report, other, client, http, pline, pnow, pres, lstr, lres>>

\* The call once get_logs has ended with result r, files being what
\* get_log_files made of the response.
Done(c, response, files, r) ==
    [c EXCEPT !.pc = "done", !.response = <<response>>,
              !.log_files = files.log_files,
              !.content = _find_log_content(files.log_files, c.log_type),
              !.parsed = r.parsed,
              !.outcome = <<[exc |-> r.exc, report |-> r.report]>>]

\* The number of lines parse_log_content will read from `response`.
LineCount(response, log_type) ==
    Len(splitlines(_find_log_content(get_log_files(response).log_files, log_type)))

\* The GET returns `response`; the rest of get_logs runs without suspending.
FetchOk(response) ==
    /\ call.pc = "fetching"
    /\ \E clks \in NowRuns(LineCount(response, call.log_type)) :
          call' = Done(call, response, get_log_files(response),
                       get_logs(response, call.log_type, call.max_entries, clks))
    /\ UNCHANGED <<report, other, client, http, pline, pnow, pres, lstr, lres>>

\* get_camera_logs(config, log_type, max_entries) up to the await of the
\* GET: a new AxisLogClient, its __aenter__, and get_logs on it.
GetCameraLogs(log_type, max_entries) ==
    /\ call.pc = "idle"
    /\ http.scope = "none"
    /\ client' = "open"
    /\ http' = [scope |-> "get_camera_logs", unclosed |-> http.unclosed + 1]
    /\ call' = [IdleCall EXCEPT !.pc = "fetching", !.log_type = log_type,
                                !.max_entries = max_entries,
                                !.requests = <<TarAllRequest>>]
    /\ UNCHANGED <<report, other, pline, pnow, pres, lstr, lres>>

\* get_logs has ended inside get_camera_logs, with a report or with an
\* exception: __aexit__ runs before either reaches the caller.
CameraLogsExit ==
    /\ call.pc = "done"
    /\ http.scope = "get_camera_logs"
    /\ client' = "None"
    /\ http' = Closed([http EXCEPT !.scope = "none"])
    /\ UNCHANGED <<report, other, call, pline, pnow, pres, lstr, lres>>

\* The caller takes the result.
Return ==
    /\ call.pc = "done"
    /\ http.scope # "get_camera_logs"
    /\ call' = IdleCall
    /\ UNCHANGED <<report, other, client, http, pline, pnow, pres, lstr, lres>>

\* The first __anext__ of stream_logs(log_type) up to the await of the GET:
\* _ensure_connected raises RuntimeError when there is no client.
StreamLogs(log_type) ==
    /\ call.pc = "idle"
    /\ call' = IF client = "None"
               THEN [IdleCall EXCEPT !.pc = "stream_done", !.log_type = log_type,
                                     !.outcome = <<[exc |-> "RuntimeError", report |-> <<>>]>>]
               ELSE [IdleCall EXCEPT !.pc = "stream_fetching", !.log_type = log_type,
                                     !.requests = <<TarAllRequest>>]
    /\ UNCHANGED <<report, other, client, http, pline, pnow, pres, lstr, lres>>

\* The GET fails with error: the error leaves the stream.
StreamFetchFail(error) ==
    /\ call.pc = "stream_fetching"
    /\ call' = [call EXCEPT !.pc = "stream_done", !.failure = <<error>>,
                            !.outcome = <<[exc |-> error, report |-> <<>>]>>]
    /\ UNCHANGED <<report, other, client, http, pline, pnow, pres, lstr, lres>>

\* The stream c has ended, exc leaving it ("None": the iteration is over).
StreamEnded(c, k, exc) ==
    [c EXCEPT !.pc = "stream_done", !.k = k,
              !.outcome = <<[exc |-> exc, report |-> <<>>]>>]

\* The loop of stream_logs over lines from the k-th on, up to the next
\* yield: the stream is suspended there, or has ended.
RECURSIVE StreamFrom(_, _, _, _)

\* The loop yielding only the entries of lines that matched a grammar (a
\* mutant).
StreamTurnParsedOnly(c, lines, k, clk, r) ==
    IF r.raised # "None" THEN StreamEnded(c, k, r.raised)
    ELSE IF r.value = <<>> \/ r.value[1].message = r.value[1].raw
    THEN StreamFrom(c, lines, k + 1, clk)
    ELSE [c EXCEPT !.pc = "streaming", !.k = k + 1, !.clk = clk,
                   !.yielded = @ \o r.value]

\* One turn of the loop, r being what parse_log_line made of the k-th line:
\* "if entry: yield entry", or the exception goes on up.
StreamTurn(c, lines, k, clk, r) ==
    IF r.raised # "None" THEN StreamEnded(c, k, r.raised)
    ELSE IF r.value = <<>> THEN StreamFrom(c, lines, k + 1, clk)
    ELSE [c EXCEPT !.pc = "streaming", !.k = k + 1, !.clk = clk,
                   !.yielded = @ \o r.value]

StreamFrom(c, lines, k, clk) ==
    IF k > Len(lines) THEN StreamEnded(c, k, "None")
    ELSE StreamTurn(c, lines, k, clk, parse_log_line(lines[k], clk))

\* The stream once get_log_files has ended with files: its exception ends
\* the stream, else the content is classified and the loop starts.
StreamStarted(c, response, files, clk) ==
    IF files.raised # "None"
    THEN StreamEnded([c EXCEPT !.response = <<response>>], 0, files.raised)
    ELSE StreamFrom([c EXCEPT !.response = <<response>>,
                              !.log_files = files.log_files,
                              !.content = _find_log_content(files.log_files, c.log_type)],
                    splitlines(_find_log_content(files.log_files, c.log_type)), 1, clk)

\* The GET returns `response`; the first __anext__ runs on to the first
\* yield or to the end of the stream.
StreamFetchOk(response) ==
    /\ call.pc = "stream_fetching"
    /\ \E clk \in ClockReadings :
          call' = StreamStarted(call, response, get_log_files(response), clk)
    /\ UNCHANGED <<report, other, client, http, pline, pnow, pres, lstr, lres>>

\* A later __anext__: the loop runs on from the yield.
StreamNext ==
    /\ call.pc = "streaming"
    /\ \E clk \in {c \in ClockReadings : c >= call.clk} :
          call' = StreamFrom(call, splitlines(call.content), call.k, clk)
    /\ UNCHANGED <<report, other, client, http, pline, pnow, pres, lstr, lres>>

\* The consumer is done with the stream, read to its end or not.
StreamClose ==
    /\ call.pc \in {"streaming", "stream_done"}
    /\ call' = IdleCall
    /\ UNCHANGED <<report, other, client, http, pline, pnow, pres, lstr, lres>>

Next ==
    \/ Enter
    \/ Exit
    \/ \E log_type \in LogType, max_entries \in MaxEntriesArgs : GetLogs(log_type, max_entries)
    \/ \E error \in HTTPErrors : FetchFail(error)
    \/ \E response \in Responses : FetchOk(response)
    \/ Return
    \/ \E log_type \in LogType : StreamLogs(log_type)
    \/ \E error \in HTTPErrors : StreamFetchFail(error)
    \/ \E response \in Responses : StreamFetchOk(response)
    \/ StreamNext
    \/ StreamClose

Spec == Init /\ [][Next]_vars

---------------------------------------------------------------------------
(* SpecScope: the connection scopes, of callers and of get_camera_logs,    *)
(* around get_logs calls on a few server reports.                          *)

\* The server reports of SpecScope: logs of mixed time zones (the sort
\* raises), sound logs, no archive, a gzip stream that ends early.
ScopeResponses ==
    {TarOf(<<Member(NameSyslog, "file", TRUE, c)>>) :
        c \in {LineAware2 \o <<"\n">> \o LineNaive1, LineAware2 \o <<"\n">> \o LineAware3}}
    \cup {[kind |-> "flat", members |-> <<>>, body |-> LineAware2],
          [kind |-> "truncated", members |-> <<>>, body |-> <<>>]}

\* The call of get_logs(log_type, max_entries) that the method `method`
\* awaits for its caller, who gave it `given`, up to the await of the GET;
\* what get_logs returns or raises is what the method returns or raises.
GetLogsVia(method, given, log_type, max_entries) ==
    [(IF client = "None"
      THEN [IdleCall EXCEPT !.pc = "done",
                            !.outcome = <<[exc |-> "RuntimeError", report |-> <<>>]>>]
      ELSE [IdleCall EXCEPT !.pc = "fetching", !.requests = <<TarAllRequest>>])
        EXCEPT !.log_type = log_type, !.max_entries = max_entries,
               !.via = method, !.given = <<given>>]

\* get_audit_logs calling get_logs(AUDIT) without its argument (a mutant).
GetAuditLogsNoLimit(max_entries) ==
    /\ call.pc = "idle"
    /\ http.scope # "get_camera_logs"
    /\ call' = GetLogsVia("get_audit_logs", max_entries, "audit", <<>>)
    /\ UNCHANGED <<report, other, client, http, pline, pnow, pres, lstr, lres>>

get_system_logs(max_entries) ==
    /\ call.pc = "idle"
    /\ http.scope # "get_camera_logs"
    /\ call' = GetLogsVia("get_system_logs", max_entries, "system", max_entries)
    /\ UNCHANGED <<report, other, client, http, pline, pnow, pres, lstr, lres>>

get_access_logs(max_entries) ==
    /\ call.pc = "idle"
    /\ http.scope # "get_camera_logs"
    /\ call' = GetLogsVia("get_access_logs", max_entries, "access", max_entries)
    /\ UNCHANGED <<report, other, client, http, pline, pnow, pres, lstr, lres>>

get_audit_logs(max_entries) ==
    /\ call.pc = "idle"
    /\ http.scope # "get_camera_logs"
    /\ call' = GetLogsVia("get_audit_logs", max_entries, "audit", max_entries)
    /\ UNCHANGED <<report, other, client, http, pline, pnow, pres, lstr, lres>>

\* The limits given to the calls of SpecScope.
ScopeMaxEntries == {<<>>, <<1>>}

NextScope ==
    \/ Enter
    \/ Exit
    \/ \E log_type \in LogType, max_entries \in ScopeMaxEntries :
          \/ GetLogs(log_type, max_entries)
          \/ GetCameraLogs(log_type, max_entries)
    \/ \E max_entries \in ScopeMaxEntries :
          \/ get_system_logs(max_entries)
          \/ get_access_logs(max_entries)
          \/ get_audit_logs(max_entries)
    \/ \E error \in HTTPErrors : FetchFail(error)
    \/ \E response \in ScopeResponses : FetchOk(response)
    \/ CameraLogsExit
    \/ Return

SpecScope == Init /\ [][NextScope]_vars

---------------------------------------------------------------------------
(* SpecReentry: one AxisLogClient entered again inside its own block.      *)

\* The arguments of the calls of SpecReentry and SpecPair.
PairLogTypes   == {"system", "all"}
PairMaxEntries == {<<>>, <<1>>}

\* The httpx clients one AxisLogClient may have open before it is entered
\* once more.
MaxClients == 3

\* "async with client:" inside the block of the same AxisLogClient:
\* __aenter__ assigns a new httpx client to _client, whatever it held.
Reenter ==
    /\ call.pc = "idle"
    /\ http.scope = "with"
    /\ http.unclosed < MaxClients
    /\ client' = "open"
    /\ http' = [scope |-> "nested", unclosed |-> http.unclosed + 1]
    /\ UNCHANGED <<report, other, call, pline, pnow, pres, lstr, lres>>

\* The inner block has ended: __aexit__, the outer block goes on.
ExitInner ==
    /\ call.pc = "idle"
    /\ http.scope = "nested"
    /\ client' = "None"
    /\ http' = Closed([http EXCEPT !.scope = "with"])
    /\ UNCHANGED <<report, other, call, pline, pnow, pres, lstr, lres>>

NextReentry ==
    \/ Enter
    \/ Reenter
    \/ ExitInner
    \/ Exit
    \/ \E log_type \in PairLogTypes, max_entries \in PairMaxEntries :
          GetLogs(log_type, max_entries)
    \/ \E error \in HTTPErrors : FetchFail(error)
    \/ \E response \in ScopeResponses : FetchOk(response)
    \/ Return

SpecReentry == Init /\ [][NextReentry]_vars

---------------------------------------------------------------------------
(* SpecPair: two calls on one connected AxisLogClient, the second one      *)
(* started, suspended at its GET and ended at any point of the first.      *)

\* The second call, get_logs(log_type, max_entries), up to the await of the
\* GET.
OtherGetLogs(log_type, max_entries) ==
    /\ other.pc = "idle"
    /\ other' = IF client = "None"
                THEN [IdleCall EXCEPT !.pc = "done", !.log_type = log_type,
                                      !.max_entries = max_entries,
                                      !.outcome = <<[exc |-> "RuntimeError", report |-> <<>>]>>]
                ELSE [IdleCall EXCEPT !.pc = "fetching", !.log_type = log_type,
                                      !.max_entries = max_entries,
                                      !.requests = <<TarAllRequest>>]
    /\ UNCHANGED <<report, call, client, http, pline, pnow, pres, lstr, lres>>

\* The GET of the second call fails with error.
OtherFetchFail(error) ==
    /\ other.pc = "fetching"
    /\ other' = [other EXCEPT !.pc = "done", !.failure = <<error>>,
                              !.outcome = <<[exc |-> error, report |-> <<>>]>>]
    /\ UNCHANGED <<report, call, client, http, pline, pnow, pres, lstr, lres>>

\* The second call's GET returning what the first call fetched, whatever the
\* camera sent (a mutant: the response kept in an attribute of the client).
OtherFetchOkShared(response) ==
    /\ other.pc = "fetching"
    /\ call.response # <<>>
    /\ \E clks \in NowRuns(LineCount(call.response[1], other.log_type)) :
          other' = Done(other, response, get_log_files(call.response[1]),
                        get_logs(call.response[1], other.log_type,
                                 other.max_entries, clks))
    /\ UNCHANGED <<report, call, client, http, pline, pnow, pres, lstr, lres>>

\* The GET of the second call returns `response`; the rest of get_logs runs
\* without suspending.
OtherFetchOk(response) ==
    /\ other.pc = "fetching"
    /\ \E clks \in NowRuns(LineCount(response, other.log_type)) :
          other' = Done(other, response, get_log_files(response),
                        get_logs(response, other.log_type, other.max_entries, clks))
    /\ UNCHANGED <<report, call, client, http, pline, pnow, pres, lstr, lres>>

\* The caller of the second call takes the result.
OtherReturn ==
    /\ other.pc = "done"
    /\ other' = IdleCall
    /\ UNCHANGED <<report, call, client, http, pline, pnow, pres, lstr, lres>>

\* The server reports of SpecPair: a syslog of two lines oldest first, one
\* of two lines and a blank one newest first, one of two lines without a
\* timestamp beside an access log, and a flat text.
PairResponses ==
    {TarOf(<<Member(NameSyslog, "file", TRUE, c)>>) :
        c \in {LineAware1a \o <<"\n">> \o LineAware3,
               LineAware3 \o <<"\n">> \o LineBlank \o <<"\n">> \o LineAware1a}}
    \cup {TarOf(<<Member(NameSyslog, "file", TRUE, LineOther \o <<"\n">> \o <<"!">>),
                  Member(NameAccess, "file", TRUE, LineAware2)>>),
          [kind |-> "flat", members |-> <<>>, body |-> LineOther]}

NextPair ==
    \/ Enter
    \/ \E log_type \in PairLogTypes, max_entries \in PairMaxEntries :
          \/ GetLogs(log_type, max_entries)
          \/ OtherGetLogs(log_type, max_entries)
    \/ \E error \in HTTPErrors : FetchFail(error) \/ OtherFetchFail(error)
    \/ \E response \in PairResponses : FetchOk(response) \/ OtherFetchOk(response)
    \/ Return
    \/ OtherReturn
    \/ \E log_type \in PairLogTypes : StreamLogs(log_type)
    \/ \E error \in HTTPErrors : StreamFetchFail(error)
    \/ \E response \in PairResponses : StreamFetchOk(response)
    \/ StreamNext
    \/ StreamClose

SpecPair == Init /\ [][NextPair]_vars

---------------------------------------------------------------------------
(* SpecReport: the construction of one LogReport.                          *)

\* The entries of the reports constructed.
EntryPool ==
    {parse_log_line(line, 1).value[1] : line \in {LineAware1a, LineAware2, LineOther}}

\* entries: up to MaxReportEntries entries; total_entries: not supplied, or
\* an int up to MaxTotalEntries.
MaxReportEntries == 2
MaxTotalEntries  == 3
TotalEntriesArgs == {<<>>} \cup {<<k>> : k \in -1..MaxTotalEntries}

InitReport ==
    /\ client = "None" /\ http = NoScope /\ call = IdleCall /\ other = IdleCall
    /\ IdleParse
    /\ IdleLevel
    /\ \E entries \in SeqsUpTo(EntryPool, MaxReportEntries),
          total_entries \in TotalEntriesArgs :
          report = [entries |-> entries, total_entries |-> total_entries,
                    built |-> <<>>]

\* LogReport(camera_name=..., camera_address=..., log_type=...,
\*           entries=report.entries[, total_entries=report.total_entries])
Construct(log_type) ==
    /\ report.built = <<>>
    /\ report' = [report EXCEPT !.built =
                     <<LogReportWith(Config.name, Config.ip_address, log_type,
                                     report.entries, report.total_entries)>>]
    /\ UNCHANGED <<client, http, call, other, pline, pnow, pres, lstr, lres>>

NextReport == \E log_type \in LogType : Construct(log_type)

SpecReport == InitReport /\ [][NextReport]_vars

---------------------------------------------------------------------------
(* Level normalisation (SpecLevel).                                        *)

\* a and b are the same text up to the case of their letters.
DiffersOnlyInCase(a, b) ==
    /\ Len(a) = Len(b)
    /\ \A i \in 1..Len(a) :
          \/ a[i] = b[i]
          \/ \E k \in DOMAIN UpperSeq : {a[i], b[i]} = {UpperSeq[k], LowerSeq[k]}

\* The long form an abbreviation stands for.
LongFormOf(abbr) ==
    CASE abbr = Warn  -> WARNING
      [] abbr = Err   -> ERROR
      [] abbr = Crit  -> CRITICAL
      [] abbr = Emerg -> EMERGENCY

\* The level a level string denotes: the long form or the abbreviation it
\* spells in any letter case, else info.
LevelDenoted(str) ==
    IF \E w \in LogLevel : DiffersOnlyInCase(str, w)
    THEN CHOOSE w \in LogLevel : DiffersOnlyInCase(str, w)
    ELSE IF \E abbr \in {Warn, Err, Crit, Emerg} : DiffersOnlyInCase(str, abbr)
    THEN LongFormOf(CHOOSE abbr \in {Warn, Err, Crit, Emerg} : DiffersOnlyInCase(str, abbr))
    ELSE INFO

\* str.upper(): the name of the enum member whose value is str.
upper(str) == [i \in 1..Len(str) |-> UpperChar(str[i])]

\* C9: _parse_log_level maps a string to the level it spells in any letter
\* case (a long form to itself, warn/err/crit/emerg to warning/error/
\* critical/emergency, anything else to info); the string written in upper
\* or in lower case maps to the same level; and the result, given back by
\* value or by name, maps to itself.
C9_CaseInsensitiveIdempotent ==
    lres.parsed # <<>> =>
        LET got == lres.parsed[1]
        IN  /\ got = LevelDenoted(lstr)
            /\ _parse_log_level(upper(lstr)) = got
            /\ _parse_log_level(lower(lstr)) = got
            /\ _parse_log_level(got) = got
            /\ _parse_log_level(upper(got)) = got

\* C9's case: an abbreviation in mixed case has been normalised.
C9_Witness ==
    /\ lstr = <<"W","a","R","n">>
    /\ lres.parsed = <<WARNING>>

\* C10: LogEntry's validator and _parse_log_level give every level string
\* the same level.
C10_SameNormalization ==
    (lres.parsed # <<>> /\ lres.validated # <<>>) => lres.parsed = lres.validated

---------------------------------------------------------------------------
(* parse_log_line (SpecParse).                                             *)

IsBlank(s) == \A i \in 1..Len(s) : s[i] \in Space

StartsWith(s, prefix) ==
    Len(s) >= Len(prefix) /\ SubSeq(s, 1, Len(prefix)) = prefix

RECURSIVE DropLeading(_)
DropLeading(s) ==
    IF s # <<>> /\ Head(s) \in Space THEN DropLeading(Tail(s)) ELSE s

RECURSIVE DropTrailing(_)
DropTrailing(s) ==
    IF s # <<>> /\ s[Len(s)] \in Space THEN DropTrailing(SubSeq(s, 1, Len(s) - 1)) ELSE s

\* s without its leading and trailing whitespace.
Trimmed(s) == DropTrailing(DropLeading(s))

\* The wall-clock time when the clock reads clk.
WallClock(clk) == [aware |-> FALSE, day |-> Today, sec |-> clk, ms |-> 0, off |-> 0]

\* The call of parse_log_line has returned an entry.
EntryReturned == pres # <<>> /\ pres[1].raised = "None" /\ pres[1].value # <<>>

\* C5: the entry's raw is the input line, character for character.
C5_RawVerbatim ==
    EntryReturned => pres[1].value[1].raw = pline

\* C6: parse_log_line never raises; it returns no entry exactly for a blank
\* line and one entry for any other; a line that starts with a timestamp of
\* a grammar's shape that is no date or time gets the wall-clock time.
C6_TotalBestEffort ==
    pres # <<>> =>
        /\ pres[1].raised = "None"
        /\ Len(pres[1].value) <= 1
        /\ (pres[1].value = <<>>) <=> IsBlank(pline)
        /\ \A ts \in {TsBadMonth, TsSimpleBad} :
              StartsWith(DropLeading(pline), ts)
                  => pres[1].value[1].timestamp = WallClock(pnow)

\* The hostname and the level a primary head spells.
HostOf(head) ==
    IF head = HeadInfo THEN <<"a","x","i","s","-","1">> ELSE <<"h">>
LevelOf(head) ==
    CASE head = HeadInfo -> INFO
      [] head = HeadWarn -> WARNING
      [] head = HeadErr  -> ERROR
      [] head = HeadBadMonth -> INFO

\* The pid clauses of the lines tried: none, "[12]", and the long one.
PidClauses ==
    {<<>>, <<"[","1","2","]">>,
     <<"[">> \o [i \in 1..(MaxStrDigits + 1) |-> "1"] \o <<"]">>}

\* The beginnings of a line of the primary shape that has a process clause,
\* up to the clause's closing colon.
ClausePrefixes ==
    {[head |-> h, pid |-> pid, text |-> pad[1] \o h \o <<"p">> \o pid \o <<":">>] :
        pad \in Pads, h \in PrimaryHeads, pid \in PidClauses}

C8_FallbackVerbatim ==
    (/\ pres # <<>>
     /\ ~IsBlank(pline)
     /\ SYSLOG_PATTERN(pline) = <<>> /\ SIMPLE_LOG_PATTERN(pline) = <<>>
     /\ SYSLOG_PATTERN(Trimmed(pline)) = <<>>
     /\ SIMPLE_LOG_PATTERN(Trimmed(pline)) = <<>>)
    => /\ EntryReturned
       /\ pres[1].value[1].message = pline
       /\ pres[1].value[1].hostname = Unknown
       /\ pres[1].value[1].level = INFO
       /\ pres[1].value[1].process = <<>>
       /\ pres[1].value[1].pid = NoPid

---------------------------------------------------------------------------
(* get_logs (Spec).                                                        *)

\* The instant a timestamp denotes, in milliseconds from the start of Today
\* (UTC for an aware value, local for a naive one).
Instant(dt) ==
    ((dt.day - Today) * 86400 + dt.sec - 60 * dt.off) * 1000 + dt.ms

\* The call of get_logs went past the fetch and has ended.
FetchedAndDone == call.pc = "done" /\ call.response # <<>>

\* The call of get_logs has returned a report.
ReportReturned == FetchedAndDone /\ call.outcome[1].report # <<>>

\* The entries of the report returned.
ReportEntries == call.outcome[1].report[1].entries

\* C1: a call of get_logs ends with a report or with a fetch or connection
\* failure, and once the fetch has succeeded it ends with a report.
C1_AlwaysReport ==
    call.pc = "done" =>
        /\ call.outcome[1].exc \in {"None", "RuntimeError"} \cup HTTPErrors
        /\ call.response # <<>> => call.outcome[1].report # <<>>

\* C2: in a report returned, no entry is older than the entry after it.
C2_NewestFirst ==
    ReportReturned =>
        \A i \in 1..(Len(ReportEntries) - 1) :
            Instant(ReportEntries[i].timestamp) >= Instant(ReportEntries[i + 1].timestamp)

\* C2's case: two entries parsed oldest first have been returned newest
\* first.
C2_Witness ==
    /\ ReportReturned
    /\ Len(call.parsed) = 2
    /\ Instant(call.parsed[1].timestamp) < Instant(call.parsed[2].timestamp)
    /\ ReportEntries = <<call.parsed[2], call.parsed[1]>>

\* The place of the i-th parsed entry in the newest-first order: after the
\* newer ones and after the equally old ones parsed before it.
Rank(parsed, i) ==
    1 + Cardinality({j \in 1..Len(parsed) :
                        Instant(parsed[j].timestamp) > Instant(parsed[i].timestamp)})
      + Cardinality({j \in 1..(i - 1) :
                        Instant(parsed[j].timestamp) = Instant(parsed[i].timestamp)})

\* The parsed entries newest first.
NewestFirst(parsed) ==
    [r \in 1..Len(parsed) |-> parsed[CHOOSE i \in 1..Len(parsed) : Rank(parsed, i) = r]]

\* C3: with max_entries = k > 0 and n entries parsed, the report returned
\* holds min(k, n) entries, the first min(k, n) of the newest-first order.
C3_KeepsNewest ==
    (ReportReturned /\ call.max_entries # <<>> /\ call.max_entries[1] > 0) =>
        LET k == call.max_entries[1]
            n == Len(call.parsed)
            m == IF k < n THEN k ELSE n
        IN  /\ Len(ReportEntries) = m
            /\ ReportEntries = SubSeq(NewestFirst(call.parsed), 1, m)

\* C3's case: of three entries parsed oldest first, the two newest have been
\* returned and the oldest left out.
C3_Witness ==
    /\ ReportReturned
    /\ call.max_entries = <<2>>
    /\ Len(call.parsed) = 3
    /\ Instant(call.parsed[1].timestamp) < Instant(call.parsed[2].timestamp)
    /\ Instant(call.parsed[2].timestamp) < Instant(call.parsed[3].timestamp)
    /\ ReportEntries = <<call.parsed[3], call.parsed[2]>>

\* The entries of seq that are as old as t, in the order of seq.
AsOldAs(seq, t) == SelectSeq(seq, LAMBDA e : Instant(e.timestamp) = Instant(t))

IsPrefix(a, b) == Len(a) <= Len(b) /\ a = SubSeq(b, 1, Len(a))

\* C4: in a report returned, the entries of one timestamp are in the order
\* in which they were parsed.
C4_Stable ==
    ReportReturned =>
        \A i \in 1..Len(ReportEntries) :
            IsPrefix(AsOldAs(ReportEntries, ReportEntries[i].timestamp),
                     AsOldAs(call.parsed, ReportEntries[i].timestamp))

\* C4's case: two different entries of one timestamp have been returned in
\* the order in which they were parsed.
C4_Witness ==
    /\ ReportReturned
    /\ Len(call.parsed) = 2
    /\ call.parsed[1] # call.parsed[2]
    /\ Instant(call.parsed[1].timestamp) = Instant(call.parsed[2].timestamp)
    /\ ReportEntries = call.parsed

(***************************************************************************)
(* Classification and archive extraction (Spec).                           *)
(***************************************************************************)

\* get_logs has fetched a response and ended, with a report or an exception.
Ended == call.pc = "done" /\ call.response # <<>>

\* name holds fragment at some position, letter case apart.
HasFragment(name, fragment) ==
    \E p \in 0..(Len(name) - Len(fragment)) :
        \A k \in 1..Len(fragment) : LowerChar(name[p + k]) = LowerChar(fragment[k])

\* The i-th file of files is one of category log_type.
Selected(files, log_type, i) ==
    \/ log_type = "all"
    \/ \E k \in 1..Len(LOG_FILE_PATTERNS(log_type)) :
          HasFragment(files[i].name, LOG_FILE_PATTERNS(log_type)[k])

\* The contents of the selected ones of the first n files, each once, in
\* the order of files, a newline between two of them.
RECURSIVE JoinedThrough(_, _, _)
JoinedThrough(files, log_type, n) ==
    IF n = 0 THEN <<>>
    ELSE IF ~Selected(files, log_type, n) THEN JoinedThrough(files, log_type, n - 1)
    ELSE IF \E i \in 1..(n - 1) : Selected(files, log_type, i)
    THEN JoinedThrough(files, log_type, n - 1) \o <<"\n">> \o files[n].content
    ELSE files[n].content

\* C11: the classified content is the newline-joined contents, in the order
\* of the mapping, of exactly the selected files, each once: every file for
\* category all, else the files whose name holds, letter case apart, one of
\* the category's fragments; it is empty when no file is selected.
C11_ClassifiedContent ==
    Ended =>
        /\ call.content = JoinedThrough(call.log_files, call.log_type, Len(call.log_files))
        /\ (\A i \in 1..Len(call.log_files) : ~Selected(call.log_files, call.log_type, i))
              => call.content = <<>>

\* C11's case: of two files extracted, the one whose name holds a fragment
\* of the category in another letter case has been selected and the other
\* has not.
C11_Witness ==
    /\ Ended
    /\ call.log_type = "access"
    /\ Len(call.log_files) = 2
    /\ \E i, j \in 1..2 :
          /\ call.log_files[i].name = NameAccess
          /\ ~Contains(NameAccess, PatAccessLog)
          /\ ~Selected(call.log_files, "access", j)
          /\ call.log_files[j].content # <<>>
          /\ call.content = call.log_files[i].content
          /\ call.content # <<>>

\* The members of the response fetched.
Members == call.response[1].members

\* The response fetched is a sound tar archive whose members are all
\* regular files that can be read.
ValidTarOfFiles ==
    /\ Ended
    /\ call.response[1].kind = "tar"
    /\ \A i \in 1..Len(Members) : Members[i].type = "file" /\ Members[i].readable

\* The mapping extracted has the entry name -> text.
HasEntry(name, text) ==
    \E k \in 1..Len(call.log_files) :
        call.log_files[k] = [name |-> name, content |-> text]

\* C12 as stated: a valid tar archive of N regular files gives a mapping of
\* exactly N entries, one per member, with the member's decoded bytes.
C12_OneEntryPerMember ==
    ValidTarOfFiles =>
        /\ Len(call.log_files) = Len(Members)
        /\ \A i \in 1..Len(Members) : HasEntry(Members[i].name, decode(Members[i].data))

\* The names of the members are pairwise different.
DistinctNames(members) ==
    \A i, j \in 1..Len(members) : members[i].name = members[j].name => i = j

\* i is the last member of its name.
LastOfName(members, i) ==
    \A j \in (i + 1)..Len(members) : members[j].name # members[i].name

\* C12, amended: a valid tar archive of regular files gives a mapping of one
\* entry per member name, with the decoded bytes of the last member of that
\* name; so it has exactly N entries, one per member in member order, when
\* the N member names are pairwise different.
C12_OneEntryPerName ==
    ValidTarOfFiles =>
        /\ Cardinality({call.log_files[k].name : k \in 1..Len(call.log_files)})
              = Len(call.log_files)
        /\ {call.log_files[k].name : k \in 1..Len(call.log_files)}
              = {Members[i].name : i \in 1..Len(Members)}
        /\ \A i \in 1..Len(Members) :
              LastOfName(Members, i) => HasEntry(Members[i].name, decode(Members[i].data))
        /\ \A k, l \in 1..Len(call.log_files) :
              k < l => \E i \in 1..Len(Members) :
                          /\ Members[i].name = call.log_files[k].name
                          /\ \A j \in 1..i : Members[j].name # call.log_files[l].name
        /\ DistinctNames(Members) =>
              call.log_files = [i \in 1..Len(Members) |->
                                  [name |-> Members[i].name,
                                   content |-> decode(Members[i].data)]]

\* C12's case: a valid archive of two regular files of different names, one
\* of them holding a byte that is no UTF-8, has been extracted into two
\* entries.
C12_Witness ==
    /\ ValidTarOfFiles
    /\ Len(Members) = 2
    /\ DistinctNames(Members)
    /\ Len(call.log_files) = 2
    /\ \E i \in 1..2 : decode(Members[i].data) # Members[i].data

\* The response fetched is no tar archive that tarfile can read through:
\* bytes of no tar flavour, a gzip stream that ends early, or an archive
\* that ends inside a member.
NotATar == Ended /\ call.response[1].kind \in {"flat", "truncated", "cut"}

\* C13: bytes that do not parse as a tar archive never surface the parse
\* error; the mapping extracted has exactly one entry, "serverreport.txt",
\* with the replacement-decoded text of the whole payload.
C13_FallbackEntry ==
    NotATar =>
        /\ get_log_files(call.response[1]).raised = "None"
        /\ call.log_files = <<[name |-> ServerReportTxt,
                               content |-> decode(call.response[1].body)]>>

\* The response fetched is a tar archive, sound or with a damaged member.
IsArchive == Ended /\ call.response[1].kind \in {"tar", "cut"}

\* The i-th member is a regular file that can be read by itself.
ReadableFile(i) == Members[i].type = "file" /\ Members[i].readable

\* C14: the mapping extracted from an archive holds regular-file members
\* only, and a member that cannot be read is the only one left out: every
\* regular member that can be read has its entry, and no error is raised.
C14_OnlyFailedMemberOmitted ==
    IsArchive =>
        /\ get_log_files(call.response[1]).raised = "None"
        /\ \A k \in 1..Len(call.log_files) :
              \E i \in 1..Len(Members) :
                  ReadableFile(i) /\ Members[i].name = call.log_files[k].name
        /\ \A i \in 1..Len(Members) :
              ReadableFile(i) =>
                  \E k \in 1..Len(call.log_files) :
                      call.log_files[k].name = Members[i].name

(***************************************************************************)
(* The connection and the request (Spec).                                  *)
(***************************************************************************)

\* A call of get_logs or stream_logs starts in this step.
CallStarts == call.pc = "idle" /\ call'.pc # "idle"

\* The call has ended with the connection-state error.
NotConnectedError ==
    /\ call.pc \in {"done", "stream_done"}
    /\ call.outcome = <<[exc |-> "RuntimeError", report |-> <<>>]>>

\* C15: a call of get_logs or stream_logs started while there is no client
\* ends at once with RuntimeError and has issued no HTTP request.
C15_NotConnected ==
    [][(CallStarts /\ client = "None") =>
          /\ call'.pc \in {"done", "stream_done"}
          /\ call'.outcome = <<[exc |-> "RuntimeError", report |-> <<>>]>>
          /\ call'.requests = <<>>
          /\ call'.response = <<>>]_vars

\* C15's case: a stream started without a client has ended with the
\* connection-state error, no request issued.
C15_Witness ==
    /\ client = "None"
    /\ call.pc = "stream_done"
    /\ NotConnectedError
    /\ call.requests = <<>>

\* A call of get_logs is under way or has ended, past the connection check.
Fetching == call.pc = "fetching" \/ (call.pc = "done" /\ ~NotConnectedError)

\* C16: a get_logs call that has a connection issues exactly one GET, in
\* tar_all mode; when the GET fails, its error is what leaves get_logs, no
\* further request has been issued and there is no report.
C16_OneRequest ==
    /\ Fetching => call.requests = <<TarAllRequest>>
    /\ (call.pc = "done" /\ call.failure # <<>>) =>
          /\ call.outcome = <<[exc |-> call.failure[1], report |-> <<>>]>>
          /\ call.failure[1] \in HTTPErrors
          /\ Len(call.requests) = 1
          /\ call.response = <<>>

\* C16's case: the one GET of a get_logs call has failed on the status, and
\* the call has ended with that error.
C16_Witness ==
    /\ call.pc = "done"
    /\ call.failure = <<"HTTPStatusError">>
    /\ call.outcome[1].exc = "HTTPStatusError"
    /\ call.requests = <<TarAllRequest>>

(***************************************************************************)
(* The connection scope (SpecScope).                                       *)
(***************************************************************************)

\* C17: outside the async with block - after its body has returned or
\* raised, in a caller or in get_camera_logs - the AxisLogClient holds no
\* client and every httpx client created has been closed.
C17_ReleasedAtExit ==
    http.scope = "none" => client = "None" /\ http.unclosed = 0

\* C17's case: get_logs has raised inside get_camera_logs, and the scope
\* has been left with the exception on its way to the caller.
C17_Witness ==
    /\ http.scope = "none"
    /\ call.pc = "done"
    /\ call.requests = <<TarAllRequest>>
    /\ call.outcome[1].exc # "None"
    /\ client = "None"
    /\ http.unclosed = 0

(***************************************************************************)
(* stream_logs and empty input (Spec).                                     *)
(***************************************************************************)

\* The stream has fetched a response and extracted its files.
Streamed ==
    /\ call.pc \in {"streaming", "stream_done"}
    /\ call.response # <<>>
    /\ get_log_files(call.response[1]).raised = "None"

\* The lines of the classified content that are not blank, in line order.
NonBlankLines == SelectSeq(splitlines(call.content), LAMBDA line : ~IsBlank(line))

\* e is the entry of line, parsed at some reading of the clock.
EntryOf(e, line) ==
    \E clk \in ClockReadings : parse_log_line(line, clk) = Returns(<<e>>)

\* C18: a stream has issued exactly one GET; the entries it has yielded are
\* those of the first non-blank lines of the classified content, one per
\* line in line order; and it ends, without an error, when every non-blank
\* line has given its entry.
C18_StreamInLineOrder ==
    /\ (call.pc \in {"stream_fetching", "streaming"}
          \/ (call.pc = "stream_done" /\ ~NotConnectedError))
        => call.requests = <<TarAllRequest>>
    /\ Streamed =>
          /\ Len(call.yielded) <= Len(NonBlankLines)
          /\ \A i \in 1..Len(call.yielded) : EntryOf(call.yielded[i], NonBlankLines[i])
          /\ call.pc = "stream_done" =>
                /\ call.outcome[1].exc = "None"
                /\ Len(call.yielded) = Len(NonBlankLines)

\* The same with the streams left out that a line has ended with an
\* exception of parse_log_line.
C18_UnlessParseRaises ==
    (call.pc = "stream_done" => call.outcome[1].exc # "ValueError")
        => C18_StreamInLineOrder

\* The files extracted hold nothing of the category asked for: no file is
\* selected, or the selected files are empty or blank.
EmptyInput ==
    /\ call.response # <<>>
    /\ get_log_files(call.response[1]).raised = "None"
    /\ \A i \in 1..Len(get_log_files(call.response[1]).log_files) :
          Selected(get_log_files(call.response[1]).log_files, call.log_type, i)
              => IsBlank(get_log_files(call.response[1]).log_files[i].content)

\* C19: on empty input get_logs returns a report of zero entries and
\* stream_logs ends having yielded nothing, and neither raises.
C19_EmptyInput ==
    EmptyInput =>
        /\ call.pc = "done" =>
              /\ call.outcome[1].exc = "None"
              /\ call.outcome[1].report # <<>>
              /\ call.outcome[1].report[1].entries = <<>>
              /\ call.outcome[1].report[1].total_entries = 0
        /\ call.pc # "streaming"
        /\ call.pc = "stream_done" =>
              /\ call.outcome[1].exc = "None"
              /\ call.yielded = <<>>

\* C19's case: category access has been asked of an archive whose only
\* member is a syslog file with a log line, and a report of zero entries
\* has been returned.
C19_Witness ==
    /\ call.pc = "done"
    /\ EmptyInput
    /\ call.log_type = "access"
    /\ Len(call.log_files) = 1
    /\ call.log_files[1].name = NameSyslog
    /\ ~IsBlank(call.log_files[1].content)
    /\ call.outcome[1].report # <<>>
    /\ call.outcome[1].report[1].entries = <<>>

(***************************************************************************)
(* LogReport (SpecReport, and the reports of get_logs in Spec).            *)
(***************************************************************************)

\* C20: a LogReport's total_entries is the length of its entries unless a
\* value was supplied at construction, and then it is the value supplied.
C20_TotalEntries ==
    report.built # <<>> =>
        report.built[1].total_entries =
            IF report.total_entries = <<>> THEN Len(report.entries)
            ELSE report.total_entries[1]

\* The second half of C20: in every report returned by get_logs,
\* total_entries is the number of entries returned.
C20_TotalOfGetLogs ==
    ReportReturned =>
        call.outcome[1].report[1].total_entries = Len(ReportEntries)

(***************************************************************************)
(* parse_log_line called twice, and its grammars (SpecParse).              *)
(***************************************************************************)

\* parse_log_line has been called twice on the line.
CalledTwice == Len(pres) = 2

\* C21 as stated: two calls with the same line end alike, with equal
\* entries.
C21_SameLineSameEntry ==
    CalledTwice => pres[1] = pres[2]

\* The entry without its timestamp.
Untimed(e) == [e EXCEPT !.timestamp = <<>>]

\* The line, stripped, holds a timestamp that the grammar it matches parses.
TimestampParses(line) ==
    IF SYSLOG_PATTERN(strip(line)) # <<>>
    THEN fromisoformat(SYSLOG_PATTERN(strip(line))[1].timestamp) # <<>>
    ELSE /\ SIMPLE_LOG_PATTERN(strip(line)) # <<>>
         /\ strptime(SIMPLE_LOG_PATTERN(strip(line))[1].timestamp) # <<>>

\* C21, amended: two calls with the same line end alike and their entries
\* are equal in hostname, level, process, pid, message and raw; they are
\* equal in timestamp when the line holds a timestamp that parses, and else
\* each timestamp is the wall-clock time of its call.
C21_SameLineSameEntryButTime ==
    CalledTwice =>
        /\ pres[1].raised = pres[2].raised
        /\ Len(pres[1].value) = Len(pres[2].value)
        /\ pres[1].value # <<>> =>
              /\ Untimed(pres[1].value[1]) = Untimed(pres[2].value[1])
              /\ IF TimestampParses(pline)
                 THEN pres[1].value[1].timestamp = pres[2].value[1].timestamp
                 ELSE /\ pres[1].value[1].timestamp = WallClock(pnow)
                      /\ \E clk \in ClockReadings :
                            /\ clk >= pnow
                            /\ pres[2].value[1].timestamp = WallClock(clk)

\* C21's case: a line of the primary grammar whose timestamp parses has
\* given the same entry twice, whatever the clock read at the second call.
C21_Witness ==
    /\ CalledTwice
    /\ TimestampParses(pline)
    /\ SYSLOG_PATTERN(strip(pline)) # <<>>
    /\ pres[1].value # <<>>
    /\ pres[1] = pres[2]
    /\ pnow = 1

(***************************************************************************)
(* Two calls on one client (SpecPair).                                     *)
(***************************************************************************)

\* The call c of get_logs has fetched a response and ended as get_logs ends
\* on that response with the arguments of c, at some readings of the clock.
OwnOutcome(c) ==
    \E clks \in NowRuns(LineCount(c.response[1], c.log_type)) :
        c = Done([IdleCall EXCEPT !.pc = "fetching", !.log_type = c.log_type,
                                  !.max_entries = c.max_entries,
                                  !.requests = <<TarAllRequest>>],
                 c.response[1], get_log_files(c.response[1]),
                 get_logs(c.response[1], c.log_type, c.max_entries, clks))

\* C22: of two get_logs calls on one connected client, one after the other
\* or one started while the other is suspended at its GET, each ends as its
\* own arguments and its own response determine (the readings of the clock
\* apart), whatever the other was called with, has fetched or has returned.
C22_CallsIndependent ==
    /\ (call.pc = "done" /\ call.response # <<>>) => OwnOutcome(call)
    /\ (other.pc = "done" /\ other.response # <<>>) => OwnOutcome(other)

\* C22's case: the second call was started while the first was suspended at
\* its GET, each has fetched a response of its own, and the first, called
\* for all without a limit, has returned its two entries while the second,
\* called for system with limit 1, has returned one.
C22_Witness ==
    /\ call.pc = "done" /\ other.pc = "done"
    /\ call.response # <<>> /\ other.response # <<>>
    /\ call.response # other.response
    /\ call.log_type = "all" /\ other.log_type = "system"
    /\ call.max_entries = <<>> /\ other.max_entries = <<1>>
    /\ call.outcome[1].report # <<>> /\ other.outcome[1].report # <<>>
    /\ Len(call.outcome[1].report[1].entries) = 2
    /\ Len(other.outcome[1].report[1].entries) = 1

(***************************************************************************)
(* The convenience methods (SpecScope).                                    *)
(***************************************************************************)

\* The category each convenience method fixes.
VariantCategory ==
    [get_system_logs |-> "system", get_access_logs |-> "access",
     get_audit_logs |-> "audit"]

ViaVariant == call.via \in DOMAIN VariantCategory

\* C23: a call of get_system_logs(m), get_access_logs(m) or get_audit_logs(m)
\* is one call of get_logs with the method's category and with m: it raises
\* RuntimeError without a GET when there is no client, issues the one GET
\* otherwise, and ends with the error of the GET or with what get_logs gives
\* for the response, the method's category and m.
C23_VariantIsGetLogs ==
    ViaVariant =>
        LET log_type == VariantCategory[call.via]
            m        == call.given[1]
        IN  /\ call.log_type = log_type
            /\ call.max_entries = m
            /\ call.requests \in {<<>>, <<TarAllRequest>>}
            /\ call.requests = <<>> <=>
                    call.outcome = <<[exc |-> "RuntimeError", report |-> <<>>]>>
            /\ (call.pc = "done" /\ call.failure # <<>>) =>
                    call.outcome = <<[exc |-> call.failure[1], report |-> <<>>]>>
            /\ (call.pc = "done" /\ call.response # <<>>) =>
                    \E clks \in NowRuns(LineCount(call.response[1], log_type)) :
                        LET r == get_logs(call.response[1], log_type, m, clks)
                        IN  call.outcome = <<[exc |-> r.exc, report |-> r.report]>>

\* C23's case: get_system_logs(1) has returned the report of get_logs, one
\* entry of the two that were parsed.
C23_Witness ==
    /\ call.via = "get_system_logs"
    /\ call.given = <<<<1>>>>
    /\ call.pc = "done"
    /\ Len(call.parsed) = 2
    /\ call.outcome[1].report # <<>>
    /\ Len(call.outcome[1].report[1].entries) = 1

(***************************************************************************)
(* No truncation without a positive limit (Spec).                          *)
(***************************************************************************)

\* The report returned holds every entry parsed, newest first.
AllParsedReported == ReportEntries = NewestFirst(call.parsed)

\* C24: a report returned by a call whose max_entries is None, zero or
\* negative holds all the entries parsed, none dropped.
C24_TruncatesOnlyWhenPositive ==
    (ReportReturned /\ (call.max_entries = <<>> \/ call.max_entries[1] <= 0)) =>
        /\ Len(ReportEntries) = Len(call.parsed)
        /\ AllParsedReported

\* What holds of the limits that are not negative: with max_entries None or
\* zero the report holds all the entries parsed.
C24_NoneOrZeroKeepsAll ==
    (ReportReturned /\ (call.max_entries = <<>> \/ call.max_entries[1] = 0)) =>
        /\ Len(ReportEntries) = Len(call.parsed)
        /\ AllParsedReported

\* With a negative max_entries the report lacks the |max_entries| oldest of
\* the entries parsed.
C24_NegativeDropsOldest ==
    (ReportReturned /\ call.max_entries # <<>> /\ call.max_entries[1] < 0) =>
        LET n == Len(call.parsed)
            m == IF n + call.max_entries[1] > 0 THEN n + call.max_entries[1] ELSE 0
        IN  ReportEntries = SubSeq(NewestFirst(call.parsed), 1, m)

(***************************************************************************)
(* The order of the grammars (SpecParse).                                  *)
(***************************************************************************)

\* The entry the first call returned.
FirstEntry == pres[1].value[1]

\* Which branch built an entry: the fallback alone makes the whole line the
\* message; the secondary grammar sets the hostname "unknown", which no
\* line tried spells as its hostname.
ByFallback(e)  == e.message = e.raw
BySecondary(e) == e.message # e.raw /\ e.hostname = Unknown
ByPrimary(e)   == e.message # e.raw /\ e.hostname # Unknown

\* C25: a line that matches the primary grammar is parsed by it; an entry
\* is built by the secondary grammar only if its line does not match the
\* primary one, and by the fallback only if its line matches neither.
C25_StrictPriority ==
    EntryReturned =>
        /\ SYSLOG_PATTERN(pline) # <<>> => ByPrimary(FirstEntry)
        /\ BySecondary(FirstEntry) => SYSLOG_PATTERN(pline) = <<>>
        /\ ByFallback(FirstEntry) =>
              SYSLOG_PATTERN(pline) = <<>> /\ SIMPLE_LOG_PATTERN(pline) = <<>>

\* What holds instead: the order is kept for the line without its leading
\* and trailing whitespace, and no such line matches both grammars.
C25_PriorityOnTrimmedLine ==
    EntryReturned =>
        LET line == Trimmed(pline)
        IN  /\ ByPrimary(FirstEntry) <=> SYSLOG_PATTERN(line) # <<>>
            /\ BySecondary(FirstEntry) <=>
                  SYSLOG_PATTERN(line) = <<>> /\ SIMPLE_LOG_PATTERN(line) # <<>>
            /\ ByFallback(FirstEntry) <=>
                  SYSLOG_PATTERN(line) = <<>> /\ SIMPLE_LOG_PATTERN(line) = <<>>
            /\ SYSLOG_PATTERN(line) = <<>> \/ SIMPLE_LOG_PATTERN(line) = <<>>

(***************************************************************************)
(* The process clause of the primary grammar (SpecParse).                  *)
(***************************************************************************)

\* The remainder of a line that starts with the primary head `head`: what
\* follows the level bracket and the whitespace after it.
Remainder(line, head) == DropLeading(From(DropLeading(line), Len(head) + 1))

\* The remainder starts with a process name and a bracketed pid.
HasPidClause(rem) ==
    LET p == RunEnd(rem, 1, ProcChar)
        q == RunEnd(rem, p + 1, Digit)
    IN  p > 1 /\ At(rem, p) = "[" /\ q > p + 1 /\ At(rem, q) = "]"
              /\ At(rem, q + 1) = ":"

\* The remainder starts with a process clause: a name, a bracketed pid or
\* none, a colon.
HasClause(rem) ==
    LET p == RunEnd(rem, 1, ProcChar)
    IN  (p > 1 /\ At(rem, p) = ":") \/ HasPidClause(rem)

\* The process name at the start of the remainder.
ProcessName(rem) == SubSeq(rem, 1, RunEnd(rem, 1, ProcChar) - 1)

\* C26: of a line of the primary grammar without a process clause the entry
\* has an empty process, no pid, and as its message all that follows the
\* level bracket (without the whitespace around it); with a process name
\* and no bracketed pid the entry has that process and no pid; and no entry
\* has a pid and an empty process.
C26_OptionalClause ==
    pres # <<>> =>
        /\ \A head \in PrimaryHeads :
              StartsWith(DropLeading(pline), head) =>
                  LET rem == Remainder(pline, head)
                  IN  /\ ~HasClause(rem) =>
                            /\ EntryReturned
                            /\ FirstEntry.process = <<>>
                            /\ FirstEntry.pid = NoPid
                            /\ FirstEntry.message = Trimmed(rem)
                      /\ (HasClause(rem) /\ ~HasPidClause(rem)) =>
                            /\ EntryReturned
                            /\ FirstEntry.process = ProcessName(rem)
                            /\ FirstEntry.pid = NoPid
        /\ EntryReturned => (FirstEntry.pid # NoPid => FirstEntry.process # <<>>)

\* What holds instead: the same, except that a line with nothing but
\* whitespace after the level bracket gives the fallback entry, whose
\* message is the whole line without the whitespace around it.
C26_UnlessNothingFollows ==
    pres # <<>> =>
        /\ \A head \in PrimaryHeads :
              StartsWith(DropLeading(pline), head) =>
                  LET rem == Remainder(pline, head)
                  IN  /\ ~HasClause(rem) =>
                            /\ EntryReturned
                            /\ FirstEntry.process = <<>>
                            /\ FirstEntry.pid = NoPid
                            /\ FirstEntry.message =
                                  IF rem = <<>> THEN Trimmed(pline) ELSE Trimmed(rem)
                            /\ ByFallback(FirstEntry) <=> rem = <<>>
                      /\ (HasClause(rem) /\ ~HasPidClause(rem)) =>
                            /\ EntryReturned
                            /\ FirstEntry.process = ProcessName(rem)
                            /\ FirstEntry.pid = NoPid
        /\ EntryReturned => (FirstEntry.pid # NoPid => FirstEntry.process # <<>>)

(***************************************************************************)
(* The secondary grammar (SpecParse).                                      *)
(***************************************************************************)

\* The time TsSimple2 spells: 2025-01-11 00:00:02, without a zone.
TimeOfTsSimple2 == [aware |-> FALSE, day |-> Today, sec |-> 2, ms |-> 0, off |-> 0]

\* What follows the timestamp of a line of the secondary shape.
AfterTimestamp(line) == From(DropLeading(line), Len(TsSimple2) + 1)

\* C27: a line of the secondary shape, a date and a time of day followed by
\* whitespace and a message, gives an entry with hostname "unknown", level
\* info, no process, no pid, the time the line spells, and as its message
\* what follows the timestamp (without the whitespace around it).
C27_SecondaryEntry ==
    (pres # <<>> /\ StartsWith(DropLeading(pline), HeadSimple)) =>
        /\ EntryReturned
        /\ FirstEntry.hostname = Unknown
        /\ FirstEntry.level = INFO
        /\ FirstEntry.process = <<>>
        /\ FirstEntry.pid = NoPid
        /\ FirstEntry.timestamp = TimeOfTsSimple2
        /\ FirstEntry.message = Trimmed(AfterTimestamp(pline))

\* What holds instead: the same when something follows the timestamp; with
\* nothing but whitespace after it the fallback entry results, whose
\* timestamp is the wall-clock time and whose message is the whole line;
\* and a timestamp of the shape that is no time of day gives the wall-clock
\* time as well.
C27_UnlessNothingFollows ==
    pres # <<>> =>
        \A head \in SimpleHeads :
            StartsWith(DropLeading(pline), head) =>
                LET msg == Trimmed(AfterTimestamp(pline))
                IN  /\ EntryReturned
                    /\ FirstEntry.hostname = Unknown
                    /\ FirstEntry.level = INFO
                    /\ FirstEntry.process = <<>>
                    /\ FirstEntry.pid = NoPid
                    /\ FirstEntry.timestamp =
                          IF head = HeadSimple /\ msg # <<>>
                          THEN TimeOfTsSimple2 ELSE WallClock(pnow)
                    /\ FirstEntry.message =
                          IF msg # <<>> THEN msg ELSE Trimmed(pline)

(***************************************************************************)
(* The flat-text fallback and the categories (Spec).                       *)
(***************************************************************************)

\* The response fetched is plain bytes, no tar archive.
FlatText == call.response # <<>> /\ call.response[1].kind = "flat"

\* The payload of the response fetched, decoded.
Payload == decode(call.response[1].body)

\* The named categories.
NamedCategories == {"system", "access", "audit"}

\* C28: of a response that is no tar archive the whole payload is the one
\* file extracted, under a name that holds no fragment of system, access or
\* audit; get_logs for one of these returns a report of zero entries and
\* stream_logs yields nothing and ends, neither raising; for category all
\* the classified content is the payload and the lines parsed are its
\* non-blank lines, one entry each in line order.
C28_FlatTextOnlyForAll ==
    FlatText =>
        /\ call.log_files = <<[name |-> ServerReportTxt, content |-> Payload]>>
        /\ \A log_type \in NamedCategories : ~Selected(call.log_files, log_type, 1)
        /\ call.log_type \in NamedCategories =>
              /\ call.content = <<>>
              /\ call.pc = "done" =>
                    /\ call.outcome[1].exc = "None"
                    /\ call.outcome[1].report # <<>>
                    /\ call.outcome[1].report[1].entries = <<>>
              /\ call.pc # "streaming"
              /\ call.pc = "stream_done" =>
                    call.outcome[1].exc = "None" /\ call.yielded = <<>>
        /\ call.log_type = "all" =>
              /\ call.content = Payload
              /\ call.pc = "done" =>
                    /\ Len(call.parsed) = Len(NonBlankLines)
                    /\ \A i \in 1..Len(call.parsed) :
                          EntryOf(call.parsed[i], NonBlankLines[i])
              /\ call.pc = "stream_done" =>
                    /\ call.outcome[1].exc = "None"
                    /\ Len(call.yielded) = Len(NonBlankLines)
                    /\ \A i \in 1..Len(call.yielded) :
                          EntryOf(call.yielded[i], NonBlankLines[i])

\* C28's case: get_logs for system has returned a report of zero entries on
\* a flat payload of two log lines.
C28_Witness ==
    /\ FlatText
    /\ call.pc = "done"
    /\ call.log_type = "system"
    /\ Len(splitlines(Payload)) = 2
    /\ call.log_files[1].name = ServerReportTxt
    /\ call.outcome[1].report # <<>>
    /\ call.outcome[1].report[1].entries = <<>>

(***************************************************************************)
(* get_logs and stream_logs on the same response (SpecPair).               *)
(***************************************************************************)

\* A stream has been read to its end, and a call of get_logs without a
\* limit, for the same category, has fetched the same response and has
\* returned a report.
StreamAndReport ==
    /\ call.pc = "stream_done" /\ call.response # <<>>
    /\ call.outcome[1].exc = "None"
    /\ other.pc = "done" /\ other.response = call.response
    /\ other.log_type = call.log_type
    /\ other.max_entries = <<>>
    /\ other.outcome[1].report # <<>>

\* The entries of the report of the second call.
OtherEntries == other.outcome[1].report[1].entries

\* The entries of seq without their timestamps.
UntimedSeq(seq) == [i \in 1..Len(seq) |-> Untimed(seq[i])]

\* How often e occurs in seq.
Count(seq, e) == Cardinality({i \in 1..Len(seq) : seq[i] = e})

\* a is a permutation of b.
IsPermutation(a, b) ==
    /\ Len(a) = Len(b)
    /\ \A i \in 1..Len(a) : Count(a, a[i]) = Count(b, a[i])

\* C29: the stream has yielded, and get_logs has parsed, one entry per
\* non-blank line of the classified content, in line order, equal in all
\* but the timestamp; the entries of the report are a permutation of those
\* the stream yielded (the timestamps apart), namely that line order sorted
\* newest first by the timestamps get_logs gave, equal ones staying in line
\* order; and when every line holds a timestamp that parses, the report is
\* the sequence the stream yielded, sorted so.
C29_ReportIsSortedStream ==
    StreamAndReport =>
        /\ Len(call.yielded) = Len(NonBlankLines)
        /\ Len(other.parsed) = Len(NonBlankLines)
        /\ \A i \in 1..Len(NonBlankLines) :
              /\ EntryOf(call.yielded[i], NonBlankLines[i])
              /\ EntryOf(other.parsed[i], NonBlankLines[i])
        /\ UntimedSeq(other.parsed) = UntimedSeq(call.yielded)
        /\ IsPermutation(UntimedSeq(OtherEntries), UntimedSeq(call.yielded))
        /\ OtherEntries = NewestFirst(other.parsed)
        /\ (\A i \in 1..Len(NonBlankLines) : TimestampParses(NonBlankLines[i]))
              => OtherEntries = NewestFirst(call.yielded)

\* C29's case: the stream has yielded two entries oldest first and the
\* report of the same response holds the two newest first.
C29_Witness ==
    /\ StreamAndReport
    /\ Len(call.yielded) = 2
    /\ Instant(call.yielded[1].timestamp) < Instant(call.yielded[2].timestamp)
    /\ OtherEntries = <<call.yielded[2], call.yielded[1]>>

\* The other reading of C29, the report being the yielded sequence sorted
\* by the timestamps the stream gave; it fails on lines without a timestamp
\* when the clock ticks between two of them in one run and not in the other.
C29_SortedByStreamTimes ==
    StreamAndReport =>
        UntimedSeq(OtherEntries) = UntimedSeq(NewestFirst(call.yielded))

(***************************************************************************)
(* Entering an AxisLogClient again (SpecReentry).                          *)
(***************************************************************************)

\* C30: whatever the sequence of entries and exits on one AxisLogClient,
\* nested ones too, at most one httpx client it created is open, none is
\* open while its handle is None, and none is open once every block
\* entered has been left.
C30_OneClientAtATime ==
    /\ http.unclosed <= 1
    /\ client = "None" => http.unclosed = 0
    /\ http.scope = "none" => http.unclosed = 0

\* What holds instead: no step other than the entry of an inner block ends
\* the three statements of C30; they hold of an AxisLogClient for as long as
\* it has not been entered inside its own block.
C30_UnlessEnteredAgain ==
    [][(C30_OneClientAtATime /\ http.scope' # "nested") => C30_OneClientAtATime']_vars

====
